---------------------------- MODULE Spec2Model ----------------------------
(***************************************************************************)
(* A model of the M-PESA statement processor (DagiiM/mpesa-pdf-to-excel):  *)
(* the chunk planner (src/pdf_processor/chunker.py), the extractor         *)
(* (src/pdf_processor/extractor.py), the decryptor                         *)
(* (src/pdf_processor/decryptor.py) and the task orchestration             *)
(* (src/tasks/celery_app.py).                                              *)
(*                                                                         *)
(* Text is modelled as a sequence of one-character strings, so that the    *)
(* parsers work on characters as the Python code does.  Each component has *)
(* its own specification (SpecChunk, SpecExtract, SpecDecrypt, Spec); the  *)
(* variables of the other components keep their initial value.             *)
(***************************************************************************)
EXTENDS Integers, Sequences, FiniteSets, TLC

VARIABLES
    calc,       \* the frame of PDFChunker.calculate_optimal_chunks
    ext,        \* the frame of one extractor call
    dec,        \* the frame of PDFDecryptor.decrypt_pdf
    job,        \* the process_pdf_statement task: its request and its frame
    chunk_tasks,\* the process_pdf_chunk tasks the job has sent, in order
    temp_files, \* the chunk files in the temporary directory
    disk_full,  \* a write to the temporary directory fails
    gen         \* the generator of PDFChunker.generate_chunks

task_vars == <<job, chunk_tasks, temp_files, disk_full, gen>>
vars == <<calc, ext, dec, job, chunk_tasks, temp_files, disk_full, gen>>

\* ------------------------------------------------------------------ bounds
MaxPages == 4          \* page counts 0..MaxPages
MaxSizeMb == 4         \* file sizes 1..MaxSizeMb (MB)
MaxThresholdMb == 2    \* max_chunk_size_mb 1..MaxThresholdMb
MaxLimit == 3          \* max_pages_per_chunk -1..MaxLimit

\* ------------------------------------------------------------- generalities
Min(a, b) == IF a <= b THEN a ELSE b
Max(a, b) == IF a >= b THEN a ELSE b

\* The idle frames: what a component's variable holds while another
\* component's specification runs.
CalcIdle == [pc |-> "idle"]
ExtIdle == [pc |-> "idle"]
TasksIdle ==
    /\ job = [pc |-> "idle"]
    /\ chunk_tasks = <<>>
    /\ temp_files = {}
    /\ disk_full = FALSE
    /\ gen = [pc |-> "idle"]
DecIdle == [pc |-> "idle"]

\* With(v, LAMBDA x : e) is e with x standing for the value of v: Python
\* evaluates an argument or a local once, and so do these definitions.
With(v, F(_)) == CHOOSE r \in {F(x) : x \in {v}} : TRUE
With2(v, w, F(_, _)) == CHOOSE r \in {F(x, y) : x \in {v}, y \in {w}} : TRUE

\* ===================================================================
\* The arithmetic of float (IEEE 754 binary64)
\* ===================================================================
\* A natural number of any size is the sequence of its digits to the base
\* 2^LimbBits, the most significant first, without leading zeros; <<>> is
\* 0.  The width of the digits is free: the numbers are the same for any.
LimbBits == 16
Pow2(n) == 2 ^ n
LimbBase == Pow2(LimbBits)
RECURSIVE bn_strip(_)
bn_strip(a0) ==
    With(a0, LAMBDA a : IF a # <<>> /\ Head(a) = 0 THEN bn_strip(Tail(a)) ELSE a)
RECURSIVE bn_of(_)
bn_of(n0) ==
    With(n0, LAMBDA n : IF n = 0 THEN <<>> ELSE Append(bn_of(n \div LimbBase), n % LimbBase))
bn_less(a0, b0) ==
    With2(a0, b0, LAMBDA a, b :
        \/ Len(a) < Len(b)
        \/ /\ Len(a) = Len(b)
           /\ \E i \in 1..Len(a) : a[i] < b[i] /\ \A j \in 1..(i - 1) : a[j] = b[j])
RECURSIVE bn_add_carry(_, _, _)
bn_add_carry(a0, b0, carry) ==
    With2(a0, b0, LAMBDA a, b :
        IF a = <<>> /\ b = <<>> THEN (IF carry = 1 THEN <<1>> ELSE <<>>)
        ELSE With((IF a = <<>> THEN 0 ELSE a[Len(a)]) + (IF b = <<>> THEN 0 ELSE b[Len(b)]) + carry,
                  LAMBDA sum :
                Append(bn_add_carry(IF a = <<>> THEN a ELSE SubSeq(a, 1, Len(a) - 1),
                                    IF b = <<>> THEN b ELSE SubSeq(b, 1, Len(b) - 1),
                                    sum \div LimbBase),
                       sum % LimbBase)))
bn_add(a, b) == bn_add_carry(a, b, 0)
\* a - b for a >= b
RECURSIVE bn_sub_borrow(_, _, _)
bn_sub_borrow(a0, b0, borrow) ==
    With2(a0, b0, LAMBDA a, b :
        IF a = <<>> THEN <<>>
        ELSE With(a[Len(a)] - (IF b = <<>> THEN 0 ELSE b[Len(b)]) - borrow, LAMBDA diff :
                Append(bn_sub_borrow(SubSeq(a, 1, Len(a) - 1),
                                     IF b = <<>> THEN b ELSE SubSeq(b, 1, Len(b) - 1),
                                     IF diff < 0 THEN 1 ELSE 0),
                       diff % LimbBase)))
bn_sub(a, b) == bn_strip(bn_sub_borrow(a, b, 0))
\* quotient and remainder of a by a divisor below 2^15
RECURSIVE bn_divmod(_, _)
bn_divmod(a0, divisor) ==
    With(a0, LAMBDA a :
        IF a = <<>> THEN [q |-> <<>>, r |-> 0]
        ELSE With(bn_divmod(SubSeq(a, 1, Len(a) - 1), divisor), LAMBDA front :
             With(LimbBase * front.r + a[Len(a)], LAMBDA r :
                [q |-> Append(front.q, r \div divisor), r |-> r % divisor])))
\* the number of bits of a
bn_bit_length(a0) ==
    With(a0, LAMBDA a :
        IF a = <<>> THEN 0
        ELSE LimbBits * (Len(a) - 1)
                + (CHOOSE n \in 1..LimbBits : Pow2(n - 1) <= a[1] /\ a[1] < Pow2(n)))
\* bit i of a, bit 0 the least significant
bn_bit(a, i) == (a[Len(a) - (i \div LimbBits)] \div Pow2(i % LimbBits)) % 2
\* a * 2^n
bn_shl(a0, n0) ==
    With2(<<0>> \o a0 \o <<0>>, n0, LAMBDA a, n :
    With2(Pow2(n % LimbBits), Pow2(LimbBits - (n % LimbBits)), LAMBDA up, down :
        bn_strip([i \in 1..(Len(a) - 1) |-> (a[i] % down) * up + (a[i + 1] \div down)]
                    \o [i \in 1..(n \div LimbBits) |-> 0])))
\* a \div 2^n
bn_shr(a0, n0) ==
    With2(a0, n0, LAMBDA a, n :
        IF n \div LimbBits >= Len(a) THEN <<>>
        ELSE
    With(<<0>> \o SubSeq(a, 1, Len(a) - (n \div LimbBits)), LAMBDA b :
    With2(Pow2(n % LimbBits), Pow2(LimbBits - (n % LimbBits)), LAMBDA down, up :
        bn_strip([i \in 1..(Len(b) - 1) |-> (b[i] % down) * up + (b[i + 1] \div down)]))))
\* a % 2^n # 0
bn_low_bits_set(a, n) ==
    \/ \E i \in 1..(n \div LimbBits) : a[Len(a) + 1 - i] # 0
    \/ a[Len(a) - (n \div LimbBits)] % Pow2(n % LimbBits) # 0
\* the number of zero bits at the end of a, a # 0
bn_zero_bits(a0) ==
    With(a0, LAMBDA a :
    With(CHOOSE i \in 1..Len(a) : a[Len(a) + 1 - i] # 0 /\ \A j \in 1..(i - 1) : a[Len(a) + 1 - j] = 0,
         LAMBDA i :
        LimbBits * (i - 1)
            + (CHOOSE n \in 0..(LimbBits - 1) : a[Len(a) + 1 - i] % Pow2(n + 1) = Pow2(n))))

\* A binary64 number is (-1)^neg * mant * 2^exp with mant odd, or zero.
B64Zero == [neg |-> FALSE, mant |-> <<>>, exp |-> 0]
B64Precision == 53
b64_make(neg, mant0, exp) ==
    With(mant0, LAMBDA mant :
        IF mant = <<>> THEN B64Zero
        ELSE With(bn_zero_bits(mant), LAMBDA n :
                [neg |-> neg, mant |-> bn_shr(mant, n), exp |-> exp + n]))
\* a * 2^exp (and a little more when inexact) rounded to 53 bits, the half
\* to even
b64_round(neg, a0, inexact, exp) ==
    With(a0, LAMBDA a :
        IF bn_bit_length(a) <= B64Precision THEN b64_make(neg, a, exp)
        ELSE With(bn_bit_length(a) - B64Precision, LAMBDA n :
             With(bn_shr(a, n), LAMBDA keep :
             With(/\ bn_bit(a, n - 1) = 1
                  /\ \/ inexact
                     \/ bn_low_bits_set(a, n - 1)
                     \/ bn_bit(keep, 0) = 1, LAMBDA up :
                b64_make(neg, IF up THEN bn_add(keep, <<1>>) ELSE keep, exp + n)))))

\* x + y for two floats
b64_add(x0, y0) ==
    With2(x0, y0, LAMBDA x, y :
        IF x = B64Zero THEN y
        ELSE IF y = B64Zero THEN x
        ELSE With(Min(x.exp, y.exp), LAMBDA exp :
             With2(bn_shl(x.mant, x.exp - exp), bn_shl(y.mant, y.exp - exp), LAMBDA a, b :
                IF x.neg = y.neg THEN b64_round(x.neg, bn_add(a, b), FALSE, exp)
                ELSE IF a = b THEN B64Zero
                ELSE IF bn_less(a, b) THEN b64_round(y.neg, bn_sub(b, a), FALSE, exp)
                ELSE b64_round(x.neg, bn_sub(a, b), FALSE, exp))))

\* float(n) for an int n >= 0
b64_of_int(n) == b64_round(FALSE, bn_of(n), FALSE, 0)

\* a / b for two ints, a >= 0 and 0 < b < 2^15: the quotient as a float
b64_div_ints(a, b) ==
    With(bn_divmod(bn_shl(bn_of(a), 64), b), LAMBDA d :
        b64_round(FALSE, bn_strip(d.q), d.r # 0, 0 - 64))

\* a * n for a small n >= 0
RECURSIVE bn_mul_carry(_, _, _)
bn_mul_carry(a0, n, carry) ==
    With(a0, LAMBDA a :
        IF a = <<>> THEN bn_of(carry)
        ELSE With(a[Len(a)] * n + carry, LAMBDA product :
                Append(bn_mul_carry(SubSeq(a, 1, Len(a) - 1), n, product \div LimbBase),
                       product % LimbBase)))
\* n * x for an int n, 0 <= n < 2^15, and a float x
b64_mul_int(n, x) == b64_round(x.neg, bn_strip(bn_mul_carry(x.mant, n, 0)), FALSE, x.exp)

\* the int that a short sequence of digits is
RECURSIVE bn_value(_)
bn_value(a0) ==
    With(a0, LAMBDA a :
        IF a = <<>> THEN 0 ELSE bn_value(SubSeq(a, 1, Len(a) - 1)) * LimbBase + a[Len(a)])
\* int(x) for a float x >= 0
b64_int(x) ==
    IF x.exp >= 0 THEN bn_value(bn_shl(x.mant, x.exp))
    ELSE bn_value(bn_shr(x.mant, 0 - x.exp))

\* ===================================================================
\* PDFChunker.calculate_optimal_chunks (chunker.py:39-84)
\* ===================================================================

\* chunker.py:65: int(total_pages * (max_chunk_size_mb / file_size_mb)) for
\* sizes in whole MB, file_size_mb > 0: the quotient is a float, the
\* product is a float, and int() cuts its fraction off.
estimated_pages(total_pages, file_size_mb, max_chunk_size_mb) ==
    b64_int(b64_mul_int(total_pages, b64_div_ints(max_chunk_size_mb, file_size_mb)))

\* chunker.py:63-69
pages_per_chunk(total_pages, file_size_mb, max_chunk_size_mb, max_pages_per_chunk) ==
    Min(Max(1, estimated_pages(total_pages, file_size_mb, max_chunk_size_mb)),
        max_pages_per_chunk)

\* The loop of chunker.py:74-77 is followed one iteration at a time, so that
\* a loop that does not end shows as a frame that never returns.  MaxIter
\* cuts the run of such a loop.
MaxIter == MaxPages + 2

CalcInputs ==
    [total_pages : 0..MaxPages,
     file_size_mb : 1..MaxSizeMb,
     max_chunk_size_mb : 1..MaxThresholdMb,
     max_pages_per_chunk : (-1)..MaxLimit]

\* a larger file: 22 pages and 22 MB, for a threshold of 15 MB
LargeCalcInputs ==
    {[total_pages |-> 22, file_size_mb |-> 22, max_chunk_size_mb |-> 15,
      max_pages_per_chunk |-> n] : n \in {10, 50}}

InitChunk ==
    /\ calc \in {[pc |-> "call", args |-> a, pages_per_chunk |-> 0,
                  start_page |-> 0, chunks |-> <<>>] : a \in CalcInputs \cup LargeCalcInputs}
    /\ ext = ExtIdle
    /\ dec = DecIdle
    /\ TasksIdle

\* chunker.py:58-60: a small file is one range, (1, total_pages).
calc_small_file ==
    /\ calc.pc = "call"
    /\ calc.args.file_size_mb <= calc.args.max_chunk_size_mb
    /\ calc' = [calc EXCEPT !.pc = "returned",
                            !.chunks = << <<1, calc.args.total_pages>> >>]
    /\ UNCHANGED <<ext, dec, task_vars>>

\* chunker.py:62-72: the page count of a chunk, and the loop's start.
calc_enter_loop ==
    /\ calc.pc = "call"
    /\ calc.args.file_size_mb > calc.args.max_chunk_size_mb
    /\ calc' = [calc EXCEPT
                  !.pc = "loop",
                  !.pages_per_chunk =
                      pages_per_chunk(calc.args.total_pages, calc.args.file_size_mb,
                                      calc.args.max_chunk_size_mb,
                                      calc.args.max_pages_per_chunk),
                  !.start_page = 1,
                  !.chunks = <<>>]
    /\ UNCHANGED <<ext, dec, task_vars>>

\* chunker.py:74-77: one iteration of the while loop.
calc_loop_step ==
    /\ calc.pc = "loop"
    /\ calc.start_page <= calc.args.total_pages
    /\ Len(calc.chunks) < MaxIter
    /\ LET end_page == Min(calc.start_page + calc.pages_per_chunk - 1,
                           calc.args.total_pages)
       IN calc' = [calc EXCEPT !.chunks = Append(@, <<calc.start_page, end_page>>),
                               !.start_page = end_page + 1]
    /\ UNCHANGED <<ext, dec, task_vars>>

\* chunker.py:74,84: the loop condition fails and the list is returned.
calc_return ==
    /\ calc.pc = "loop"
    /\ calc.start_page > calc.args.total_pages
    /\ calc' = [calc EXCEPT !.pc = "returned"]
    /\ UNCHANGED <<ext, dec, task_vars>>

NextChunk == calc_small_file \/ calc_enter_loop \/ calc_loop_step \/ calc_return

SpecChunk == InitChunk /\ [][NextChunk]_vars

\* A list of ranges partitions [1, n]: it starts at 1, ends at n, has no gap
\* and no overlap, and every range is within 1..n and not empty.
IsPartition(ranges, n) ==
    /\ Len(ranges) >= 1
    /\ ranges[1][1] = 1
    /\ ranges[Len(ranges)][2] = n
    /\ \A i \in 1..(Len(ranges) - 1) : ranges[i][2] + 1 = ranges[i + 1][1]
    /\ \A i \in 1..Len(ranges) :
          /\ 1 <= ranges[i][1]
          /\ ranges[i][1] <= ranges[i][2]
          /\ ranges[i][2] <= n

\* C1: for every page count, file size and thresholds, the list returned by
\* calculate_optimal_chunks partitions [1, total_pages] exactly.
C1_ChunksPartition ==
    calc.pc = "returned" => IsPartition(calc.chunks, calc.args.total_pages)

\* ===================================================================
\* Text: Python's str operations on sequences of characters
\* ===================================================================

DigitChars == <<"0", "1", "2", "3", "4", "5", "6", "7", "8", "9">>
LowerChars == <<"a", "b", "c", "d", "e", "f", "g", "h", "i", "j", "k", "l", "m",
                "n", "o", "p", "q", "r", "s", "t", "u", "v", "w", "x", "y", "z">>
UpperChars == <<"A", "B", "C", "D", "E", "F", "G", "H", "I", "J", "K", "L", "M",
                "N", "O", "P", "Q", "R", "S", "T", "U", "V", "W", "X", "Y", "Z">>
Range(f0) == With(f0, LAMBDA f : {f[i] : i \in DOMAIN f})
DigitSet == Range(DigitChars)
LowerSet == Range(LowerChars)
UpperSet == Range(UpperChars)
IsDigit(c) == c \in DigitSet
IsLetter(c) == c \in LowerSet \/ c \in UpperSet
\* \w of the re module
IsWordChar(c) == IsDigit(c) \/ IsLetter(c) \/ c = "_"
\* \s of the re module, and what str.strip and str.split() take as blank
IsSpace(c) == c \in {" ", "\n", "\t"}
IndexIn(seq, c) == CHOOSE i \in DOMAIN seq : seq[i] = c
DigitVal(c) == IndexIn(DigitChars, c) - 1

upper_char(c) == IF c \in LowerSet THEN UpperChars[IndexIn(LowerChars, c)] ELSE c
lower_char(c) == IF c \in UpperSet THEN LowerChars[IndexIn(UpperChars, c)] ELSE c
\* str.upper, str.lower
upper(s0) == With(s0, LAMBDA s : [i \in 1..Len(s) |-> upper_char(s[i])])
lower(s0) == With(s0, LAMBDA s : [i \in 1..Len(s) |-> lower_char(s[i])])

\* str.strip(): s without its leading and trailing blanks
strip(s0) ==
    With(s0, LAMBDA s :
        LET inked == {i \in 1..Len(s) : ~IsSpace(s[i])}
        IN IF inked = {} THEN <<>>
           ELSE SubSeq(s, CHOOSE i \in inked : \A j \in inked : i <= j,
                          CHOOSE i \in inked : \A j \in inked : i >= j))

\* sub in s
contains(sub0, s0) ==
    With(sub0, LAMBDA sub : With(s0, LAMBDA s :
        \E i \in 0..(Len(s) - Len(sub)) : SubSeq(s, i + 1, i + Len(sub)) = sub))

\* s.startswith(prefix)
startswith(s0, prefix0) ==
    With(s0, LAMBDA s : With(prefix0, LAMBDA prefix :
        Len(s) >= Len(prefix) /\ SubSeq(s, 1, Len(prefix)) = prefix))

FirstIndex(s, c) == CHOOSE i \in 1..Len(s) : s[i] = c /\ \A j \in 1..(i - 1) : s[j] # c
LastIndex(s, c) == CHOOSE i \in 1..Len(s) : s[i] = c /\ \A j \in (i + 1)..Len(s) : s[j] # c

\* s.split(sep) for a one-character separator: empty parts are kept
RECURSIVE split_on(_, _)
split_on(s0, sep) ==
    With(s0, LAMBDA s :
        IF \E i \in 1..Len(s) : s[i] = sep
        THEN With(FirstIndex(s, sep), LAMBDA i :
                <<SubSeq(s, 1, i - 1)>> \o split_on(SubSeq(s, i + 1, Len(s)), sep))
        ELSE <<s>>)

\* the length of the first word of s: its characters up to the first blank
word_len(s0) ==
    With(s0, LAMBDA s :
        IF \E i \in 1..Len(s) : IsSpace(s[i])
        THEN (CHOOSE i \in 1..Len(s) : IsSpace(s[i]) /\ \A j \in 1..(i - 1) : ~IsSpace(s[j])) - 1
        ELSE Len(s))

\* s.split(): the blank-separated words of s
RECURSIVE split(_)
split(s0) ==
    With(strip(s0), LAMBDA t :
        IF t = <<>> THEN <<>>
        ELSE With(word_len(t), LAMBDA n :
                <<SubSeq(t, 1, n)>> \o split(SubSeq(t, n + 1, Len(t)))))

\* sep.join(parts)
RECURSIVE join(_, _)
join(sep, parts0) ==
    With(parts0, LAMBDA parts :
        IF parts = <<>> THEN <<>>
        ELSE IF Len(parts) = 1 THEN parts[1]
        ELSE parts[1] \o sep \o join(sep, Tail(parts)))

\* s.replace(a, b) and s.replace(a, '') for a one-character a
replace_char(s0, a, b) ==
    With(s0, LAMBDA s : [i \in 1..Len(s) |-> IF s[i] = a THEN b ELSE s[i]])
remove_char(s, a) == SelectSeq(s, LAMBDA c : c # a)

\* s.zfill(2) for a string of digits
zfill2(s0) == With(s0, LAMBDA s : IF Len(s) < 2 THEN <<"0">> \o s ELSE s)

\* int(s) for a string of digits
RECURSIVE digits_value(_)
digits_value(s0) ==
    With(s0, LAMBDA s :
        IF s = <<>> THEN 0
        ELSE digits_value(SubSeq(s, 1, Len(s) - 1)) * 10 + DigitVal(s[Len(s)]))

\* ===================================================================
\* Optional[Decimal]
\* ===================================================================
\* None, a Decimal, or an exception in flight.  A Decimal is m / 10^e with
\* no trailing zero in its fraction, so that equality of the records is
\* Decimal's numeric equality (Decimal("5.0") == Decimal("5")).
None == [k |-> "None"]
Raise(exc) == [k |-> "Raise", exc |-> exc]
RECURSIVE Dec(_, _)
Dec(m0, e0) ==
    With(m0, LAMBDA m : With(e0, LAMBDA e :
        IF e > 0 /\ m % 10 = 0 THEN Dec(m \div 10, e - 1)
        ELSE [k |-> "Dec", m |-> m, e |-> e]))

IsDec(d) == d.k = "Dec"
\* bool(d): None and zero are false
truthy(d0) == With(d0, LAMBDA d : IsDec(d) /\ d.m # 0)

RECURSIVE Pow10(_)
Pow10(n0) == With(n0, LAMBDA n : IF n = 0 THEN 1 ELSE 10 * Pow10(n - 1))
\* a < b for two Decimals
dec_less(a0, b0) ==
    With(a0, LAMBDA a : With(b0, LAMBDA b : a.m * Pow10(b.e) < b.m * Pow10(a.e)))

\* Decimal(s) for a string of digits, '.', ',' and '-': the value, or
\* decimal.InvalidOperation when s is not [-]digits[.digits] with a digit.
Decimal(s0) ==
    With(s0, LAMBDA s :
    With(s # <<>> /\ Head(s) = "-", LAMBDA neg :
    With(IF neg THEN Tail(s) ELSE s, LAMBDA body :
        LET dots == Len(SelectSeq(body, LAMBDA c : c = "."))
            digits == SelectSeq(body, IsDigit)
            wellformed == /\ \A i \in 1..Len(body) : IsDigit(body[i]) \/ body[i] = "."
                          /\ dots <= 1
                          /\ digits # <<>>
            e == IF dots = 1 THEN Len(body) - FirstIndex(body, ".") ELSE 0
            m == digits_value(digits)
        IN IF wellformed THEN Dec(IF neg THEN 0 - m ELSE m, e)
           ELSE Raise("InvalidOperation"))))

\* ===================================================================
\* PDFExtractor.parse_amount (extractor.py:158-194)
\* ===================================================================
\* the values that stand for "no value" (extractor.py:168, 348, 354, 364)
Placeholders == {<<>>, <<"-">>, <<"0", ".", "0", "0">>, <<"0">>}

\* extractor.py:172: re.sub(r'[^\d.,-]', '', s)
clean_amount_chars(s) == SelectSeq(s, LAMBDA c : IsDigit(c) \/ c \in {".", ",", "-"})

\* extractor.py:178-189
normalize_separators(clean0) ==
    With(clean0, LAMBDA clean :
        IF (\E i \in 1..Len(clean) : clean[i] = ",") /\ (\E i \in 1..Len(clean) : clean[i] = ".")
        THEN remove_char(clean, ",")
        ELSE IF \E i \in 1..Len(clean) : clean[i] = ","
             THEN IF Len(clean) - LastIndex(clean, ",") <= 2
                  THEN replace_char(clean, ",", ".")
                  ELSE remove_char(clean, ",")
             ELSE clean)

\* The result is None, a Decimal, or the decimal.InvalidOperation that
\* Decimal() raises: the except clause of line 193 names ValueError and
\* TypeError only, and InvalidOperation is an ArithmeticError.
parse_amount(amount_str0) ==
    With(amount_str0, LAMBDA amount_str :
        IF amount_str = <<>> \/ strip(amount_str) \in Placeholders THEN None
        ELSE With(clean_amount_chars(strip(amount_str)), LAMBDA clean :
                IF clean = <<>> THEN None
                ELSE Decimal(normalize_separators(clean))))

\* ===================================================================
\* PDFExtractor.parse_date (extractor.py:72-76, 196-258)
\* ===================================================================
\* Optional[str]
Str(s) == [k |-> "Str", s |-> s]

\* the number of digits of s from position i on
RECURSIVE digit_run(_, _)
digit_run(s0, i0) ==
    With2(s0, i0, LAMBDA s, i :
        IF i >= 1 /\ i <= Len(s) /\ IsDigit(s[i]) THEN 1 + digit_run(s, i + 1) ELSE 0)
RECURSIVE letter_run(_, _)
letter_run(s0, i0) ==
    With2(s0, i0, LAMBDA s, i :
        IF i >= 1 /\ i <= Len(s) /\ IsLetter(s[i]) THEN 1 + letter_run(s, i + 1) ELSE 0)
RECURSIVE space_run(_, _)
space_run(s0, i0) ==
    With2(s0, i0, LAMBDA s, i :
        IF i >= 1 /\ i <= Len(s) /\ IsSpace(s[i]) THEN 1 + space_run(s, i + 1) ELSE 0)

\* no word character at position i of s: with a word character on the other
\* side, that is the \b of the patterns
non_word_at(s, i0) == With(i0, LAMBDA i : i < 1 \/ i > Len(s) \/ ~IsWordChar(s[i]))
is_date_sep(s, i0) == With(i0, LAMBDA i : i >= 1 /\ i <= Len(s) /\ s[i] \in {"/", "-"})

\* strptime's %b names (the C locale), as the patterns spell them
MonthAbbr == << <<"J", "A", "N">>, <<"F", "E", "B">>, <<"M", "A", "R">>,
                <<"A", "P", "R">>, <<"M", "A", "Y">>, <<"J", "U", "N">>,
                <<"J", "U", "L">>, <<"A", "U", "G">>, <<"S", "E", "P">>,
                <<"O", "C", "T">>, <<"N", "O", "V">>, <<"D", "E", "C">> >>

\* The last position of the match of date pattern k that starts at position
\* i of s, or 0 when the pattern does not match there.  Every repetition of
\* the patterns is followed by a character it cannot take, so a match takes
\* each run of digits, blanks or letters whole.
\*   1: \b(\d{1,2}[/-]\d{1,2}[/-]\d{2,4})\b
\*   2: \b(\d{4}[/-]\d{1,2}[/-]\d{1,2})\b
\*   3: \b(\d{1,2}\s+(?:Jan|...|Dec)[a-z]*\s+\d{2,4})\b, re.IGNORECASE
MonthAbbrSet == Range(MonthAbbr)

\* s and i are values in the three definitions that follow
numeric_date_end(s, i, first, last) ==
    With(digit_run(s, i), LAMBDA a :
    With(digit_run(s, i + a + 1), LAMBDA b :
    With(digit_run(s, i + a + b + 2), LAMBDA c :
        LET e == i + a + b + c + 1
        IN IF /\ non_word_at(s, i - 1)
              /\ a \in first
              /\ is_date_sep(s, i + a)
              /\ b \in 1..2
              /\ is_date_sep(s, i + a + b + 1)
              /\ c \in last
              /\ non_word_at(s, e + 1)
           THEN e ELSE 0)))

month_date_end(s, i) ==
    With(digit_run(s, i), LAMBDA a :
    With(space_run(s, i + a), LAMBDA w1 :
    With(i + a + w1, LAMBDA ms :
    With(letter_run(s, ms), LAMBDA l :
    With(space_run(s, ms + l), LAMBDA w2 :
    With(digit_run(s, ms + l + w2), LAMBDA c :
        LET e == ms + l + w2 + c - 1
        IN IF /\ non_word_at(s, i - 1)
              /\ a \in 1..2
              /\ w1 >= 1
              /\ l >= 3
              /\ upper(SubSeq(s, ms, ms + 2)) \in MonthAbbrSet
              /\ w2 >= 1
              /\ c \in 2..4
              /\ non_word_at(s, e + 1)
           THEN e ELSE 0))))))

date_pattern_end(k, s, i) ==
    CASE k = 1 -> numeric_date_end(s, i, 1..2, 2..4)
      [] k = 2 -> numeric_date_end(s, i, {4}, 1..2)
      [] k = 3 -> month_date_end(s, i)

\* re.search(date_patterns[k], s, re.IGNORECASE): group(1) of the leftmost
\* match, or the empty string when there is none
date_search(k0, s0) ==
    With2(k0, s0, LAMBDA k, s :
    With({i \in 1..Len(s) : date_pattern_end(k, s, i) > 0}, LAMBDA starts :
        IF starts = {} THEN <<>>
        ELSE With(CHOOSE x \in starts : \A y \in starts : x <= y, LAMBDA i :
                SubSeq(s, i, date_pattern_end(k, s, i)))))

is_leap(y) == (y % 4 = 0 /\ y % 100 # 0) \/ y % 400 = 0
days_in_month(y, m) ==
    IF m = 2 THEN (IF is_leap(y) THEN 29 ELSE 28)
    ELSE IF m \in {4, 6, 9, 11} THEN 30 ELSE 31

\* the validation of line 250 left out of the day's upper limit
is_calendar_date_any_day(year, month, day) ==
    /\ Len(year) = 4
    /\ Len(month) \in 1..2
    /\ Len(day) \in 1..2
    /\ With(digits_value(year), LAMBDA y :
       With2(digits_value(month), digits_value(day), LAMBDA m, d :
            y >= 1 /\ m \in 1..12 /\ d >= 1 /\ d <= 31))

\* datetime.strptime(f"{year}-{month}-{day}", '%Y-%m-%d') does not raise
is_calendar_date(year, month, day) ==
    /\ Len(year) = 4
    /\ Len(month) \in 1..2
    /\ Len(day) \in 1..2
    /\ With(digits_value(year), LAMBDA y :
       With2(digits_value(month), digits_value(day), LAMBDA m, d :
            y >= 1 /\ m \in 1..12 /\ d >= 1 /\ d <= days_in_month(y, m)))

\* extractor.py:236-244: the month of the result, or the empty string when
\* strptime(month, '%b') raises ValueError
month_number(month0) ==
    With(month0, LAMBDA month :
        IF month # <<>> /\ \A i \in 1..Len(month) : IsDigit(month[i])
        THEN zfill2(month)
        ELSE With(upper(month), LAMBDA name :
                IF name \in MonthAbbrSet
                THEN With(IndexIn(MonthAbbr, name), LAMBDA n :
                        <<DigitChars[(n \div 10) + 1], DigitChars[(n % 10) + 1]>>)
                ELSE <<>>))

\* extractor.py:212-253: what one matched text gives, None for 'continue'
\* extractor.py:217-232: year, month and day of the parts, or the empty
\* list when no part is the year
year_month_day(parts) ==
    IF Len(parts[1]) = 4 THEN <<parts[1], parts[2], parts[3]>>
    ELSE IF Len(parts[3]) = 4 THEN <<parts[3], parts[2], parts[1]>>
    ELSE IF Len(parts[3]) = 2
         THEN <<(IF digits_value(parts[3]) < 50 THEN <<"2", "0">>
                 ELSE <<"1", "9">>) \o parts[3], parts[2], parts[1]>>
         ELSE <<>>

date_from_match(date_value0) ==
    With(replace_char(replace_char(date_value0, "/", "-"), " ", "-"), LAMBDA date_value :
    With(split_on(date_value, "-"), LAMBDA parts :
        IF Len(parts) # 3 THEN None
        ELSE With(year_month_day(parts), LAMBDA ymd :
                IF ymd = <<>> THEN None
                ELSE With(month_number(ymd[2]), LAMBDA month :
                     With2(ymd[1], zfill2(ymd[3]), LAMBDA year, day :
                        IF month # <<>> /\ is_calendar_date(year, month, day)
                        THEN Str(year \o <<"-">> \o month \o <<"-">> \o day)
                        ELSE None)))))

RECURSIVE parse_date_from(_, _)
parse_date_from(k0, date_str0) ==
    With2(k0, date_str0, LAMBDA k, date_str :
        IF k > 3 THEN None
        ELSE With(date_search(k, date_str), LAMBDA m :
             With(IF m = <<>> THEN None ELSE date_from_match(m), LAMBDA r :
                IF r # None THEN r ELSE parse_date_from(k + 1, date_str))))

\* None or the date as YYYY-MM-DD
parse_date(date_str) == parse_date_from(1, date_str)

\* ===================================================================
\* PDFExtractor.extract_transactions_from_table (extractor.py:260-386)
\* ===================================================================
\* A table is a sequence of rows and a row a sequence of cells; a cell is
\* None or Str(text), as pdfplumber gives them.
KW_COMPLETION_TIME == <<"C","O","M","P","L","E","T","I","O","N"," ","T","I","M","E">>
KW_TIME == <<"T","I","M","E">>
KW_DETAILS == <<"D","E","T","A","I","L","S">>
KW_PAID_IN == <<"P","A","I","D"," ","I","N">>
KW_WITHDRAWN == <<"W","I","T","H","D","R","A","W","N">>
KW_PAID_OUT == <<"P","A","I","D"," ","O","U","T">>
KW_BALANCE == <<"B","A","L","A","N","C","E">>
KW_TOTAL == <<"T","O","T","A","L">>
KW_SUMMARY == <<"S","U","M","M","A","R","Y">>
KW_STATEMENT_PERIOD == <<"S","T","A","T","E","M","E","N","T"," ","P","E","R","I","O","D">>
KW_debit == <<"d","e","b","i","t">>
KW_withdrawal == <<"w","i","t","h","d","r","a","w","a","l">>
STR_None == <<"N","o","n","e">>

\* str(cell)
py_str(cell0) == With(cell0, LAMBDA cell : IF cell = None THEN STR_None ELSE cell.s)

\* TransactionData (extractor.py:19-46)
TransactionData(date, description, debit, credit, balance) ==
    [date |-> date, description |-> description, debit |-> debit,
     credit |-> credit, balance |-> balance, reference |-> None]

\* ' '.join([str(cell) for cell in row])
row_text(row0) ==
    With(row0, LAMBDA row : join(<<" ">>, [i \in 1..Len(row) |-> py_str(row[i])]))

\* extractor.py:280-283: the row is a header row
is_header_row(row0) ==
    With(row0, LAMBDA row :
        /\ Len(row) >= 6
        /\ With(upper(row_text(row)), LAMBDA row_str :
                /\ contains(KW_PAID_IN, row_str)
                /\ contains(KW_WITHDRAWN, row_str) \/ contains(KW_PAID_OUT, row_str)
                /\ contains(KW_BALANCE, row_str)))

\* extractor.py:279-285: the index of the first header row, 0 for none
header_row_idx(table0) ==
    With(table0, LAMBDA table :
    With({i \in 1..Len(table) : is_header_row(table[i])}, LAMBDA found :
        IF found = {} THEN 0 ELSE CHOOSE i \in found : \A j \in found : i <= j))

\* extractor.py:295-305: the role of a header cell, first match first
header_role(header) ==
    With(strip(upper(py_str(header))), LAMBDA header_str :
        IF contains(KW_COMPLETION_TIME, header_str) \/ contains(KW_TIME, header_str)
        THEN "date"
        ELSE IF contains(KW_DETAILS, header_str) THEN "description"
        ELSE IF contains(KW_PAID_IN, header_str) THEN "credit"
        ELSE IF contains(KW_WITHDRAWN, header_str) \/ contains(KW_PAID_OUT, header_str)
             THEN "debit"
        ELSE IF contains(KW_BALANCE, header_str) THEN "balance"
        ELSE "none")

\* extractor.py:293-305: col_mapping[role], 0 when the role has no column;
\* a later header cell of the same role replaces an earlier one
col_mapping(header_row0, role) ==
    With(header_row0, LAMBDA header_row :
    With({i \in 1..Len(header_row) : header_role(header_row[i]) = role}, LAMBDA cols :
        IF cols = {} THEN 0 ELSE CHOOSE i \in cols : \A j \in cols : i >= j))

\* extractor.py:316-318
is_summary_row(row) ==
    With(upper(row_text(row)), LAMBDA row_str :
        \/ contains(KW_TOTAL, row_str)
        \/ contains(KW_SUMMARY, row_str)
        \/ contains(KW_STATEMENT_PERIOD, row_str))

\* extractor.py:322-329
row_date_str(header_row, row) ==
    With(col_mapping(header_row, "date"), LAMBDA c :
        IF c = 0 THEN <<>>
        ELSE With(strip(py_str(row[c])), LAMBDA date_cell :
                IF " " \in Range(date_cell) THEN split_on(date_cell, " ")[1]
                ELSE date_cell))

\* extractor.py:346-349 and 362-365: the amount of the cell of a role
cell_amount(header_row, row, role) ==
    With(col_mapping(header_row, role), LAMBDA c :
        IF c = 0 THEN None
        ELSE With(strip(py_str(row[c])), LAMBDA cell_str :
                IF cell_str \in Placeholders THEN None ELSE parse_amount(cell_str)))

\* extractor.py:352-359: the debit cell, a leading minus sign removed
debit_amount(header_row, row) ==
    With(col_mapping(header_row, "debit"), LAMBDA c :
        IF c = 0 THEN None
        ELSE With(strip(py_str(row[c])), LAMBDA debit_str :
                IF debit_str \in Placeholders THEN None
                ELSE IF startswith(debit_str, <<"-">>) THEN parse_amount(Tail(debit_str))
                ELSE parse_amount(debit_str)))

\* extractor.py:367-368: the row becomes a transaction
has_meaningful_data(credit, debit) == truthy(credit) \/ truthy(debit)

\* extractor.py:320-380: the transactions of one row after the header, a
\* list of none or one.  An exception of a step (parse_amount raising) is
\* caught at line 378 and the row is skipped.
row_transactions(header_row, row) ==
    With(parse_date(row_date_str(header_row, row)), LAMBDA parsed_date :
        IF parsed_date = None THEN <<>>
        ELSE With(col_mapping(header_row, "description"), LAMBDA d :
             With(IF d = 0 THEN <<>> ELSE strip(py_str(row[d])), LAMBDA description :
             With2(cell_amount(header_row, row, "credit"),
                   debit_amount(header_row, row), LAMBDA credit, debit :
             With(cell_amount(header_row, row, "balance"), LAMBDA balance :
                IF credit.k = "Raise" \/ debit.k = "Raise" \/ balance.k = "Raise"
                THEN <<>>
                ELSE IF has_meaningful_data(credit, debit)
                     THEN <<TransactionData(parsed_date.s, description,
                                            debit, credit, balance)>>
                     ELSE <<>>)))))

\* extractor.py:308-380: the rows from row_num on
RECURSIVE rows_transactions(_, _, _)
rows_transactions(table, header_row, row_num0) ==
    With(row_num0, LAMBDA row_num :
        IF row_num > Len(table) THEN <<>>
        ELSE With(table[row_num], LAMBDA row :
                (IF Len(row) < Len(header_row) \/ is_summary_row(row) THEN <<>>
                 ELSE row_transactions(header_row, row))
                    \o rows_transactions(table, header_row, row_num + 1)))

extract_transactions_from_table(table0) ==
    With(table0, LAMBDA table :
    With(header_row_idx(table), LAMBDA h :
        IF Len(table) < 2 \/ h = 0 THEN <<>>
        ELSE With(table[h], LAMBDA header_row :
                rows_transactions(table, header_row, h + 1))))

\* ===================================================================
\* PDFExtractor.extract_transactions_from_text (extractor.py:388-472)
\* ===================================================================
\* extractor.py:409-414: group(1) of the first date pattern that matches the
\* line, the empty string when none does
RECURSIVE line_date_match(_, _)
line_date_match(k0, line) ==
    With(k0, LAMBDA k :
        IF k > 3 THEN <<>>
        ELSE With(date_search(k, line), LAMBDA m :
                IF m # <<>> THEN m ELSE line_date_match(k + 1, line)))

\* extractor.py:426: re.search(r'\d+(?:[.,]\d{2})?', part)
looks_like_amount(part) == \E i \in 1..Len(part) : IsDigit(part[i])

\* extractor.py:424-431: the parts that do not look like an amount
description_parts(parts) == SelectSeq(parts, LAMBDA part : ~looks_like_amount(part))

\* extractor.py:424-429: parse_amount of the parts that look like an amount
parsed_parts(parts) ==
    With(SelectSeq(parts, looks_like_amount), LAMBDA numeric :
        [i \in 1..Len(numeric) |-> parse_amount(numeric[i])])

\* extractor.py:436-456: debit, credit and balance from the amounts
classify_amounts(amounts0, description) ==
    With(amounts0, LAMBDA amounts :
    IF Len(amounts) >= 1
    THEN IF Len(amounts) = 2
         THEN IF dec_less(amounts[1], amounts[2])
              THEN [debit |-> None, credit |-> amounts[1], balance |-> amounts[2]]
              ELSE [debit |-> amounts[1], credit |-> None, balance |-> amounts[2]]
         ELSE IF contains(KW_debit, lower(description))
                 \/ contains(KW_withdrawal, lower(description))
              THEN [debit |-> amounts[1], credit |-> None, balance |-> None]
              ELSE [debit |-> None, credit |-> amounts[1], balance |-> None]
    ELSE [debit |-> None, credit |-> None, balance |-> None])

\* a value returned, as opposed to an exception raised
Ok(v) == [k |-> "Ok", v |-> v]

\* extractor.py:403-466: what one line gives: a list of none or one
\* transaction, or the exception that parse_amount raised (line 427 is
\* inside no try of its own)
line_transactions(line0) ==
    With(strip(line0), LAMBDA line :
    With(line_date_match(1, line), LAMBDA date_match :
    With(IF date_match = <<>> THEN None ELSE parse_date(date_match), LAMBDA parsed_date :
        IF line = <<>> \/ date_match = <<>> \/ parsed_date = None THEN Ok(<<>>)
        ELSE With(split(line), LAMBDA parts :
             With(parsed_parts(parts), LAMBDA parsed :
                IF \E i \in 1..Len(parsed) : parsed[i].k = "Raise"
                THEN Raise("InvalidOperation")
                ELSE With(join(<<" ">>, description_parts(parts)), LAMBDA description :
                     With(classify_amounts(SelectSeq(parsed, truthy), description), LAMBDA c :
                        Ok(<<TransactionData(parsed_date.s, description,
                                             c.debit, c.credit, c.balance)>>))))))))

\* the lines of all pages, in order (extractor.py:400-403)
RECURSIVE text_lines(_)
text_lines(text_content0) ==
    With(text_content0, LAMBDA text_content :
        IF text_content = <<>> THEN <<>>
        ELSE split_on(Head(text_content), "\n") \o text_lines(Tail(text_content)))

\* extractor.py:400-466: the transactions of the lines, or the exception of
\* the first line that raises
RECURSIVE lines_transactions(_)
lines_transactions(lines0) ==
    With(lines0, LAMBDA lines :
        IF lines = <<>> THEN Ok(<<>>)
        ELSE With(line_transactions(Head(lines)), LAMBDA here :
                IF here.k = "Raise" THEN here
                ELSE With(lines_transactions(Tail(lines)), LAMBDA rest :
                        IF rest.k = "Raise" THEN rest ELSE Ok(here.v \o rest.v))))

\* extractor.py:399-472: an exception of any line ends the loop, and the
\* except clause of line 470 returns the empty list
extract_transactions_from_text(text_content) ==
    With(lines_transactions(text_lines(text_content)), LAMBDA r :
        IF r.k = "Raise" THEN <<>> ELSE r.v)

\* ===================================================================
\* The extractor's inputs and its specification
\* ===================================================================
MaxCellLen == 2        \* amount cells: every text of up to MaxCellLen characters
MaxRows == 2           \* rows after the header of a table of sample rows
MaxLineTokens == 2     \* words of a text line
MaxLines == 2          \* lines of a page of sample lines

\* every text of up to n characters of A
StringsUpTo(A, n) == UNION {[1..k -> A] : k \in 0..n}

CellAlphabet == {"5", "-", "."}
SampleAmountCells ==
    {<<"0">>,
     <<"0",".","0">>,
     <<"0",".","0","0">>,
     <<"1","0","0",".","0","0">>,
     <<"5","0",".","0","0">>,
     <<"-","5","0",".","0","0">>,
     <<"K","E","S"," ","5">>,
     <<"1",",","5">>}

\* the texts of a Paid In or Withdrawn cell, and the empty cell
AmountCells ==
    {Str(t) : t \in StringsUpTo(CellAlphabet, MaxCellLen) \cup SampleAmountCells}
        \cup {None}

\* the header of an M-PESA statement table, and two other tables
StatementHeader ==
    <<Str(<<"R","e","c","e","i","p","t"," ","N","o",".">>), Str(<<"C","o","m","p","l","e","t","i","o","n"," ","T","i","m","e">>), Str(<<"D","e","t","a","i","l","s">>), Str(<<"T","r","a","n","s","a","c","t","i","o","n"," ","S","t","a","t","u","s">>), Str(<<"P","a","i","d"," ","I","n">>), Str(<<"W","i","t","h","d","r","a","w","n">>), Str(<<"B","a","l","a","n","c","e">>)>>
PaidOutHeader ==
    <<Str(<<"R","e","c","e","i","p","t"," ","N","o",".">>), Str(<<"C","o","m","p","l","e","t","i","o","n"," ","T","i","m","e">>), Str(<<"D","e","t","a","i","l","s">>), Str(<<"T","r","a","n","s","a","c","t","i","o","n"," ","S","t","a","t","u","s">>), Str(<<"P","a","i","d"," ","I","n">>), Str(<<"P","a","i","d"," ","O","u","t">>), Str(<<"B","a","l","a","n","c","e">>)>>
SummaryHeader ==
    <<Str(<<"T","R","A","N","S","A","C","T","I","O","N"," ","T","Y","P","E">>), Str(<<"P","A","I","D"," ","I","N">>), Str(<<"P","A","I","D"," ","O","U","T">>), None, None, None, None>>
Headers == {StatementHeader, PaidOutHeader, SummaryHeader}

DateCells == {Str(<<"0","1","/","0","1","/","2","0","2","3"," ","1","0",":","0","0">>), Str(<<"P","e","n","d","i","n","g">>)}
BalanceCells == {Str(<<"1","0","0","0",".","0","0">>), Str(<<>>)}

StatementRow(time, details, paid_in, withdrawn, balance) ==
    <<Str(<<"A">>), time, details, Str(<<"O", "K">>), paid_in, withdrawn, balance>>

\* one-row tables with every text in the amount cells
WideTables ==
    {<<StatementHeader, StatementRow(d, Str(<<"T">>), c, w, b)>> :
        d \in DateCells, c \in AmountCells, w \in AmountCells, b \in BalanceCells}

\* sample rows: a credit, a debit, both, an amount that does not parse, a
\* summary row and a row shorter than the header
SampleRows ==
    {<<Str(<<"A">>), Str(<<"0","1","/","0","1","/","2","0","2","3"," ","1","0",":","0","0">>), Str(<<"T","e","s","t">>), Str(<<"C","o","m","p","l","e","t","e","d">>), Str(<<"1","0","0",".","0","0">>), Str(<<"0",".","0","0">>), Str(<<"1","0","0","0",".","0","0">>)>>,
     <<Str(<<"B">>), Str(<<"0","2","/","0","1","/","2","0","2","3"," ","1","1",":","0","0">>), Str(<<"A","n","o","t","h","e","r">>), Str(<<"C","o","m","p","l","e","t","e","d">>), Str(<<"0",".","0","0">>), Str(<<"5","0",".","0","0">>), Str(<<"9","5","0",".","0","0">>)>>,
     <<Str(<<"C">>), Str(<<"0","3","/","0","1","/","2","0","2","3">>), Str(<<"B","o","t","h">>), Str(<<"C","o","m","p","l","e","t","e","d">>), Str(<<"1","0",".","0","0">>), Str(<<"2","0",".","0","0">>), Str(<<"9","4","0",".","0","0">>)>>,
     <<Str(<<"D">>), Str(<<"0","4","/","0","1","/","2","0","2","3">>), Str(<<"B","a","d">>), Str(<<"C","o","m","p","l","e","t","e","d">>), Str(<<"5","-">>), Str(<<>>), Str(<<"9","4","0",".","0","0">>)>>,
     <<Str(<<>>), Str(<<>>), Str(<<"T","O","T","A","L">>), Str(<<>>), Str(<<"1","1","0",".","0","0">>), Str(<<"7","0",".","0","0">>), Str(<<>>)>>,
     <<Str(<<"E">>), Str(<<"0","5","/","0","1","/","2","0","2","3">>), Str(<<"S","h","o","r","t">>)>>}

RECURSIVE SeqsUpTo(_, _)
\* the sequences of up to n elements of S
SeqsUpTo(S, n0) ==
    With(n0, LAMBDA n :
        IF n = 0 THEN {<<>>}
        ELSE With(SeqsUpTo(S, n - 1), LAMBDA shorter :
                shorter \cup {Append(q, x) : q \in shorter, x \in S}))

SampleTables == {<<h>> \o rows : h \in Headers, rows \in SeqsUpTo(SampleRows, MaxRows)}

\* the words of a text line: dates, words and amounts
LineTokens ==
    {<<"0","1","/","0","2","/","2","0","2","3">>,
     <<"2","0","2","3","-","0","2","-","0","1">>,
     <<"3","1","/","0","2","/","2","0","2","3">>,
     <<"P","a","i","d">>,
     <<"w","i","t","h","d","r","a","w","a","l">>,
     <<"5","0",".","0","0">>,
     <<"1","0","0",".","0","0">>,
     <<"5","-">>,
     <<"0">>}
SampleLines ==
    {<<"0","1","/","0","2","/","2","0","2","3"," ","P","a","i","d"," ","5","0",".","0","0"," ","1","0","0",".","0","0">>,
     <<"0","2","/","0","2","/","2","0","2","3"," ","w","i","t","h","d","r","a","w","a","l"," ","2","0",".","0","0">>,
     <<"0","3","/","0","2","/","2","0","2","3"," ","O","p","e","n","i","n","g">>,
     <<"0","4","/","0","2","/","2","0","2","3"," ","F","e","e"," ","5","-">>,
     <<"S","t","a","t","e","m","e","n","t"," ","P","e","r","i","o","d">>}

\* one-line pages of up to MaxLineTokens words
WideTexts ==
    {<<join(<<" ">>, ws)>> : ws \in SeqsUpTo(LineTokens, MaxLineTokens) \ {<<>>}}

\* one page of up to MaxLines sample lines
SampleTexts ==
    {<<join(<<"\n">>, ls)>> : ls \in SeqsUpTo(SampleLines, MaxLines) \ {<<>>}}

\* date texts: day, month and year in several spellings, day first and
\* year first, and texts without a date
DateDays == {<<"1">>, <<"0","1">>, <<"2","9">>, <<"3","0">>, <<"3","1">>, <<"3","2">>}
DateMonths == {<<"2">>, <<"0","2">>, <<"0","4">>, <<"1","3">>, <<"F","e","b">>}
DateYears == {<<"2","0","2","3">>, <<"2","0","2","4">>, <<"2","3">>, <<"1","2","3">>, <<"0","0","0","0">>}
DateSeparators == {"/", "-", " "}
DateStrings ==
    {d \o <<p>> \o m \o <<p>> \o y :
        d \in DateDays, m \in DateMonths, y \in DateYears, p \in DateSeparators}
    \cup {y \o <<p>> \o m \o <<p>> \o d :
        d \in DateDays, m \in DateMonths, y \in DateYears, p \in DateSeparators}
    \cup {<<>>, <<"P","e","n","d","i","n","g">>}

InitExtract ==
    /\ \/ ext \in {[pc |-> "call", op |-> "table", table |-> t, transactions |-> <<>>] :
                      t \in WideTables \cup SampleTables}
       \/ ext \in {[pc |-> "call", op |-> "text", text_content |-> x, transactions |-> <<>>] :
                      x \in WideTexts \cup SampleTexts}
       \/ ext \in {[pc |-> "call", op |-> "date", date_str |-> x, result |-> None] :
                      x \in DateStrings}
    /\ calc = CalcIdle
    /\ dec = DecIdle
    /\ TasksIdle

\* a call of extract_transactions_from_table
table_extraction ==
    /\ ext.pc = "call"
    /\ ext.op = "table"
    /\ ext' = [ext EXCEPT !.pc = "returned",
                          !.transactions = extract_transactions_from_table(ext.table)]
    /\ UNCHANGED <<calc, dec, task_vars>>

\* a call of extract_transactions_from_text
text_extraction ==
    /\ ext.pc = "call"
    /\ ext.op = "text"
    /\ ext' = [ext EXCEPT !.pc = "returned",
                          !.transactions = extract_transactions_from_text(ext.text_content)]
    /\ UNCHANGED <<calc, dec, task_vars>>

\* a call of parse_date(date_str)
parse_date_call ==
    /\ ext.pc = "call"
    /\ ext.op = "date"
    /\ ext' = [ext EXCEPT !.pc = "returned", !.result = parse_date(ext.date_str)]
    /\ UNCHANGED <<calc, dec, task_vars>>

NextExtract == table_extraction \/ text_extraction \/ parse_date_call

SpecExtract == InitExtract /\ [][NextExtract]_vars

\* the records a returned extractor call emitted
Emitted ==
    IF ext.pc = "returned" /\ ext.op \in {"table", "text"} THEN Range(ext.transactions) ELSE {}

\* C4: every TransactionData emitted by the extractor has at most one of
\* debit and credit non-null; a row with both is rejected.
C4_AtMostOneOfDebitCredit ==
    \A t \in Emitted : t.debit = None \/ t.credit = None

\* The words of a line that are no part of its date.
remaining_parts(line) ==
    With(line_date_match(1, line), LAMBDA m :
        SelectSeq(split(line), LAMBDA part : ~contains(part, m) /\ ~contains(m, part)))

\* The line matches a date and has an amount among its remaining words.
dated_with_amount(line0) ==
    With(strip(line0), LAMBDA line :
    With(line_date_match(1, line), LAMBDA m :
        /\ m # <<>>
        /\ parse_date(m) # None
        /\ \E i \in DOMAIN remaining_parts(line) : looks_like_amount(remaining_parts(line)[i])))

\* C5: no record is emitted with both debit and credit absent: a table row
\* with neither a credit nor a debit gives no transaction, even with a
\* balance, and a text line that matches a date but has no amount among its
\* other words gives no transaction, so that a text gives at most one
\* transaction for each dated line with an amount.
C5_NoRecordWithoutAmount ==
    /\ \A t \in Emitted : t.debit # None \/ t.credit # None
    /\ ext.pc = "returned" /\ ext.op = "text" =>
          With(text_lines(ext.text_content), LAMBDA lines :
            Len(ext.transactions)
                <= Cardinality({i \in DOMAIN lines : dated_with_amount(lines[i])}))

\* C6: in every emitted TransactionData, debit and credit are each absent or
\* a non-negative amount, whatever the text of the cells.
C6_AmountsNonNegative ==
    \A t \in Emitted : /\ t.debit = None \/ t.debit.m >= 0
                       /\ t.credit = None \/ t.credit.m >= 0

\* ===================================================================
\* PDFDecryptor (decryptor.py)
\* ===================================================================
KW_password_prefix == <<"p", "a", "s", "s", "w", "o", "r", "d", "-">>

\* f.readline(): the text up to and with the first newline
readline(content0) ==
    With(content0, LAMBDA content :
        IF \E i \in 1..Len(content) : content[i] = "\n"
        THEN SubSeq(content, 1, FirstIndex(content, "\n"))
        ELSE content)

\* s.strip('"')
strip_quotes(s0) ==
    With(s0, LAMBDA s :
        LET kept == {i \in 1..Len(s) : s[i] # "\""}
        IN IF kept = {} THEN <<>>
           ELSE SubSeq(s, CHOOSE i \in kept : \A j \in kept : i <= j,
                          CHOOSE i \in kept : \A j \in kept : i >= j))

\* decryptor.py:26-57.  password_file is None when there is no such file and
\* Str(content) for a text file; the result is Ok(password) or the
\* PDFDecryptionError raised for a missing file and for a blank password
\* (validators.py:120-133).
load_default_password(password_file) ==
    IF password_file = None THEN Raise("PDFDecryptionError")
    ELSE With(strip(readline(password_file.s)), LAMBDA password_line :
         With(IF startswith(password_line, KW_password_prefix)
              THEN strip_quotes(SubSeq(password_line, Len(KW_password_prefix) + 1,
                                       Len(password_line)))
              ELSE password_line, LAMBDA password :
            IF strip(password) = <<>> THEN Raise("PDFDecryptionError")
            ELSE Ok(password)))

\* a plausible slip: the default password is put before the supplied one
passwords_to_try_default_first(password, use_default, password_file) ==
    With(IF password # None /\ password.s # <<>> THEN <<password.s>> ELSE <<>>, LAMBDA supplied :
        IF ~use_default THEN supplied
        ELSE With(load_default_password(password_file), LAMBDA default_password :
                IF default_password.k = "Ok" /\ default_password.v \notin Range(supplied)
                THEN <<default_password.v>> \o supplied
                ELSE supplied))

\* decryptor.py:106-117: the passwords decrypt_pdf tries, in order.  password
\* is None or Str(text) and goes in when it is truthy (not None, not empty).
passwords_to_try(password, use_default, password_file) ==
    With(IF password # None /\ password.s # <<>> THEN <<password.s>> ELSE <<>>, LAMBDA supplied :
        IF ~use_default THEN supplied
        ELSE With(load_default_password(password_file), LAMBDA default_password :
                IF default_password.k = "Ok" /\ default_password.v \notin Range(supplied)
                THEN Append(supplied, default_password.v)
                ELSE supplied))

\* a plausible slip: the result of reader.decrypt is not looked at
reader_decrypt_unchecked(accepts, pwd) == TRUE

\* decryptor.py:121: reader.decrypt(pwd) is truthy; accepts is the set of
\* the passwords (user and owner) that open the document
reader_decrypt(accepts, pwd) == pwd \in accepts

\* The documents, passwords and password files of the calls.
SamplePasswords == {<<"1">>, <<"2">>}
DocumentKinds == {"unreadable", "plain", "encrypted"}
SuppliedPasswords == {None, Str(<<>>)} \cup {Str(p) : p \in SamplePasswords}
PasswordFiles ==
    {None,
     Str(<<"p", "a", "s", "s", "w", "o", "r", "d", "-", "\"", "1", "\"", "\n">>),
     Str(<<"2", "\n", "1", "\n">>),
     Str(<<"p", "a", "s", "s", "w", "o", "r", "d", "-", "\"", "\"">>),
     Str(<<" ", "\n">>)}

DecryptCalls ==
    [pc : {"call"},
     kind : DocumentKinds,
     accepts : SUBSET SamplePasswords,
     password : SuppliedPasswords,
     use_default : BOOLEAN,
     password_file : PasswordFiles,
     passwords : {<<>>},
     attempts : {<<>>},
     loads : {0},
     decrypted : {FALSE}]

InitDecrypt ==
    /\ dec \in DecryptCalls
    /\ calc = CalcIdle
    /\ ext = ExtIdle
    /\ TasksIdle

\* decryptor.py:99-100, 130-133: the file or its PDF structure cannot be read
decrypt_unreadable ==
    /\ dec.pc = "call"
    /\ dec.kind = "unreadable"
    /\ dec' = [dec EXCEPT !.pc = "raised"]
    /\ UNCHANGED <<calc, ext, task_vars>>

\* decryptor.py:102-104
decrypt_not_encrypted ==
    /\ dec.pc = "call"
    /\ dec.kind = "plain"
    /\ dec' = [dec EXCEPT !.pc = "returned"]
    /\ UNCHANGED <<calc, ext, task_vars>>

\* decryptor.py:106-117
decrypt_collect_passwords ==
    /\ dec.pc = "call"
    /\ dec.kind = "encrypted"
    /\ dec' = [dec EXCEPT !.pc = "try",
                          !.passwords = passwords_to_try(dec.password, dec.use_default,
                                                         dec.password_file),
                          !.loads = IF dec.use_default THEN 1 ELSE 0]
    /\ UNCHANGED <<calc, ext, task_vars>>

\* decryptor.py:120-123: one turn of the loop
decrypt_try_password ==
    /\ dec.pc = "try"
    /\ dec.passwords # <<>>
    /\ IF reader_decrypt(dec.accepts, Head(dec.passwords))
       THEN dec' = [dec EXCEPT !.pc = "returned",
                               !.attempts = Append(@, Head(dec.passwords)),
                               !.decrypted = TRUE]
       ELSE dec' = [dec EXCEPT !.passwords = Tail(@),
                               !.attempts = Append(@, Head(dec.passwords))]
    /\ UNCHANGED <<calc, ext, task_vars>>

\* decryptor.py:126-128
decrypt_exhausted ==
    /\ dec.pc = "try"
    /\ dec.passwords = <<>>
    /\ dec' = [dec EXCEPT !.pc = "raised"]
    /\ UNCHANGED <<calc, ext, task_vars>>

NextDecrypt ==
    \/ decrypt_unreadable
    \/ decrypt_not_encrypted
    \/ decrypt_collect_passwords
    \/ decrypt_try_password
    \/ decrypt_exhausted

SpecDecrypt == InitDecrypt /\ [][NextDecrypt]_vars

\* The candidate passwords of the call as the contract lists them: the
\* supplied password if one is given, then the configured default password
\* unless it is the supplied one.
SuppliedCandidate ==
    IF dec.password # None /\ dec.password.s # <<>> THEN <<dec.password.s>> ELSE <<>>
DefaultCandidate ==
    With(load_default_password(dec.password_file), LAMBDA d :
        IF dec.use_default /\ d.k = "Ok" /\ d.v \notin Range(SuppliedCandidate)
        THEN <<d.v>> ELSE <<>>)
Candidates == SuppliedCandidate \o DefaultCandidate
IsPrefix(a, b) == Len(a) <= Len(b) /\ SubSeq(b, 1, Len(a)) = a
DecryptEnded == dec.pc \in {"returned", "raised"}

CodePoints ==
    <<"\t", "\n", " ", "\"", "-", ".", "/">> \o DigitChars \o <<":">> \o UpperChars
        \o <<"_">> \o LowerChars
ord(c) == IndexIn(CodePoints, c)

\* a < b for two str
RECURSIVE str_less(_, _)
str_less(a0, b0) ==
    With2(a0, b0, LAMBDA a, b :
        IF b = <<>> THEN FALSE
        ELSE IF a = <<>> THEN TRUE
        ELSE IF Head(a) # Head(b) THEN ord(Head(a)) < ord(Head(b))
        ELSE str_less(Tail(a), Tail(b)))

\* extractor.py:534-539: the identity of a record
transaction_key(t) == <<t.date, strip(lower(t.description)), t.debit, t.credit>>

\* a plausible slip: the duplicates are removed from the list while the
\* loop runs over it, so the record after a removed one is not looked at
RECURSIVE deduplicate_from(_, _, _)
deduplicate_from(transactions0, i, seen_keys) ==
    With(transactions0, LAMBDA transactions :
        IF i > Len(transactions) THEN transactions
        ELSE IF transaction_key(transactions[i]) \in seen_keys
        THEN deduplicate_from(SubSeq(transactions, 1, i - 1)
                                \o SubSeq(transactions, i + 1, Len(transactions)),
                              i + 1, seen_keys)
        ELSE deduplicate_from(transactions, i + 1,
                              seen_keys \cup {transaction_key(transactions[i])}))
deduplicate_in_place(transactions0) == deduplicate_from(transactions0, 1, {})

\* extractor.py:520-545: the first record of every key, in the order of the list
deduplicate_transactions(transactions0) ==
    With(transactions0, LAMBDA transactions :
    With([i \in DOMAIN transactions |-> transaction_key(transactions[i])], LAMBDA keys :
        LET first == {i \in DOMAIN keys : \A j \in 1..(i - 1) : keys[j] # keys[i]}
            nth(n) == CHOOSE i \in first : Cardinality({j \in first : j < i}) = n - 1
        IN [n \in 1..Cardinality(first) |-> transactions[nth(n)]]))

\* extractor.py:511: (a.date, a.description) < (b.date, b.description)
sort_key_less(a, b) ==
    \/ str_less(a.date, b.date)
    \/ a.date = b.date /\ str_less(a.description, b.description)

\* sorted(): t goes after the records of sorted_list that are not greater
insert_sorted(sorted_list0, t) ==
    With(sorted_list0, LAMBDA sorted_list :
        LET before == {i \in DOMAIN sorted_list : ~sort_key_less(t, sorted_list[i])}
            n == Cardinality(before)
        IN SubSeq(sorted_list, 1, n) \o <<t>> \o SubSeq(sorted_list, n + 1, Len(sorted_list)))

\* extractor.py:509-512: sorted(transactions, key=(date, description)), stable
RECURSIVE sorted_transactions(_)
sorted_transactions(transactions0) ==
    With(transactions0, LAMBDA transactions :
        IF transactions = <<>> THEN <<>>
        ELSE insert_sorted(
                sorted_transactions(SubSeq(transactions, 1, Len(transactions) - 1)),
                transactions[Len(transactions)]))

\* the lists of a sequence of lists, one after the other
RECURSIVE concat(_)
concat(lists0) ==
    With(lists0, LAMBDA lists :
        IF lists = <<>> THEN <<>> ELSE Head(lists) \o concat(Tail(lists)))

\* extractor.py:104, 141: pdfplumber.open(pdf_path, password=password)
\* opens a plain file, and an encrypted one that the password (the empty
\* password when none is given) opens.
plumber_opens(pdf, password) ==
    \/ pdf.kind = "plain"
    \/ /\ pdf.kind = "encrypted"
       /\ (IF password = None THEN <<>> ELSE password.s) \in pdf.accepts

\* a plausible slip: the text strategy runs whatever the tables gave
extract_all_transactions_both(pdf0, password) ==
    With(pdf0, LAMBDA pdf :
        IF ~plumber_opens(pdf, password) THEN Raise("PDFExtractionError")
        ELSE
    With(concat([i \in DOMAIN pdf.pages |-> pdf.pages[i].tables])
            \o concat([i \in DOMAIN pdf.pages |-> pdf.pages[i].text]), LAMBDA all_transactions :
        IF all_transactions = <<>> THEN Raise("PDFExtractionError")
        ELSE Ok(sorted_transactions(deduplicate_transactions(all_transactions)))))

\* extractor.py:474-518.  A page is [tables, text]: the transactions that
\* extract_transactions_from_table gives for its tables and those that
\* extract_transactions_from_text gives for its lines.  The result is
\* Ok(list) or the PDFExtractionError of a file that cannot be opened and of
\* a file that gives nothing.
extract_all_transactions(pdf0, password) ==
    With(pdf0, LAMBDA pdf :
        IF ~plumber_opens(pdf, password) THEN Raise("PDFExtractionError")
        ELSE
    With(concat([i \in DOMAIN pdf.pages |-> pdf.pages[i].tables]), LAMBDA from_tables :
    With(IF from_tables # <<>> THEN from_tables
         ELSE concat([i \in DOMAIN pdf.pages |-> pdf.pages[i].text]), LAMBDA all_transactions :
        IF all_transactions = <<>> THEN Raise("PDFExtractionError")
        ELSE Ok(sorted_transactions(deduplicate_transactions(all_transactions))))))

\* extractor.py:48-61: to_dict(); float(d) if d else None
to_float(d) == IF truthy(d) THEN [k |-> "float", m |-> d.m, e |-> d.e] ELSE None
to_dict(t) ==
    [Date |-> t.date, Description |-> t.description, Debit |-> to_float(t.debit),
     Credit |-> to_float(t.credit), Balance |-> to_float(t.balance),
     Reference |-> t.reference]

\* ===================================================================
\* The tasks: process_pdf_statement and process_pdf_chunk (celery_app.py)
\* ===================================================================
MAX_CHUNK_SIZE_MB == 10
MAX_PAGES_PER_CHUNK == 50
MAX_RETRIES == 3

MaxDocPages == 2       \* documents of 1..MaxDocPages pages

\* decryptor.py:79-133 as one call: Ok when the file is a plain PDF or one
\* of the passwords to try opens it, else the PDFDecryptionError.
decrypt_pdf(pdf, password, password_file) ==
    IF pdf.kind = "unreadable" THEN Raise("PDFDecryptionError")
    ELSE IF pdf.kind = "plain" THEN Ok(pdf)
    ELSE With(passwords_to_try(password, TRUE, password_file), LAMBDA passwords :
            IF \E i \in DOMAIN passwords : reader_decrypt(pdf.accepts, passwords[i])
            THEN Ok(pdf)
            ELSE Raise("PDFDecryptionError"))

\* decryptor.py:135-152: there is a first page and it can be read
verify_decryption(reader) ==
    Len(reader.pages) > 0 /\ reader.first_page_readable

\* chunker.py:74-77 for a positive pages_per_chunk
RECURSIVE chunk_ranges_from(_, _, _)
chunk_ranges_from(start_page, total_pages, per_chunk) ==
    IF start_page > total_pages THEN <<>>
    ELSE With(Min(start_page + per_chunk - 1, total_pages), LAMBDA end_page :
            << <<start_page, end_page>> >>
                \o chunk_ranges_from(end_page + 1, total_pages, per_chunk))

\* chunker.py:39-84 with the default limits of settings.py
calculate_optimal_chunks(total_pages, file_size_mb) ==
    IF file_size_mb <= MAX_CHUNK_SIZE_MB THEN << <<1, total_pages>> >>
    ELSE chunk_ranges_from(1, total_pages,
            pages_per_chunk(total_pages, file_size_mb, MAX_CHUNK_SIZE_MB,
                            MAX_PAGES_PER_CHUNK))

\* a plausible slip: a file of exactly the threshold size is chunked
should_chunk_at_threshold(pdf) == pdf.size_mb >= MAX_CHUNK_SIZE_MB

\* chunker.py:191-201
should_chunk(pdf) == pdf.size_mb > MAX_CHUNK_SIZE_MB

\* chunker.py:203-234
get_chunking_strategy(pdf) ==
    With(IF should_chunk(pdf)
         THEN calculate_optimal_chunks(Len(pdf.pages), pdf.size_mb)
         ELSE << <<1, Len(pdf.pages)>> >>, LAMBDA chunk_ranges :
        [should_chunk |-> should_chunk(pdf),
         chunk_count |-> Len(chunk_ranges),
         chunk_ranges |-> chunk_ranges])

\* validators.py:158-188 for integer pages: TRUE when no ValidationError
validate_page_range(start_page, end_page, total_pages) ==
    start_page >= 1 /\ end_page >= start_page /\ end_page <= total_pages

\* chunker.py:113-122: the file create_chunk writes for a range
chunk_path(start_page, end_page) == <<start_page, end_page>>
\* a plausible slip: range(start_page - 1, end_page - 1), the last page left out
chunk_pdf_without_last(reader, start_page, end_page) ==
    [kind |-> "plain", accepts |-> {}, first_page_readable |-> TRUE,
     pages |-> SubSeq(reader.pages, start_page, end_page - 1)]

chunk_pdf(reader, start_page, end_page) ==
    [kind |-> "plain", accepts |-> {}, first_page_readable |-> TRUE,
     pages |-> SubSeq(reader.pages, start_page, end_page)]

\* what is at the path after a write that failed
PartialFile ==
    [kind |-> "unreadable", accepts |-> {}, first_page_readable |-> FALSE, pages |-> <<>>]

\* chunker.py:86-134.  A range that is not valid and a page that cannot be
\* read raise before the file is opened; when the write fails open() has
\* failed, or it has made the file (file_made) and write() fails.  The
\* result is Ok(path) or the PDFChunkingError, with what is then at the path
\* (written; None: the call has not touched the path).
create_chunk(reader, start_page, end_page, write_fails, file_made) ==
    IF \/ ~validate_page_range(start_page, end_page, Len(reader.pages))
       \/ (start_page = 1 /\ ~reader.first_page_readable)
    THEN [k |-> "Raise", exc |-> "PDFChunkingError", written |-> None]
    ELSE IF write_fails
    THEN [k |-> "Raise", exc |-> "PDFChunkingError",
          written |-> IF file_made THEN PartialFile ELSE None]
    ELSE [k |-> "Ok", v |-> chunk_path(start_page, end_page),
          written |-> chunk_pdf(reader, start_page, end_page)]

\* the temporary directory after create_chunk of task `by` for the path
files_after(files, path, created, by) ==
    IF created.written = None THEN files
    ELSE {f \in files : f.path # path}
            \cup {[path |-> path, by |-> by, pdf |-> created.written]}

\* ------------------------------------------------- the requests of the model
\* Pages: one whose table gives a transaction, one whose text gives an
\* earlier transaction, and one that gives nothing.
TablePage ==
    [tables |-> <<TransactionData(<<"2", "0", "2", "3", "-", "0", "1", "-", "0", "2">>, <<"B">>, None, Dec(5, 0), None)>>,
     text |-> <<>>]
TextPage ==
    [tables |-> <<>>,
     text |-> <<TransactionData(<<"2", "0", "2", "3", "-", "0", "1", "-", "0", "1">>, <<"A">>, Dec(7, 0), None, None)>>]
BlankPage == [tables |-> <<>>, text |-> <<>>]
SamplePages == {TablePage, TextPage, BlankPage}
FileSizesMb == {5, 15}

\* How the file opens: plain; encrypted and opened by the supplied password,
\* by no supplied password, by the default password; plain with a first page
\* that cannot be read; not a PDF.
DefaultPasswordFile ==
    Str(<<"p", "a", "s", "s", "w", "o", "r", "d", "-", "\"", "1", "\"", "\n">>)
OpenCases ==
    {[kind |-> "plain", accepts |-> {}, first_page_readable |-> TRUE,
      password |-> None, password_file |-> None],
     [kind |-> "encrypted", accepts |-> {<<"1">>}, first_page_readable |-> TRUE,
      password |-> Str(<<"1">>), password_file |-> None],
     [kind |-> "encrypted", accepts |-> {<<"1">>}, first_page_readable |-> TRUE,
      password |-> Str(<<"2">>), password_file |-> None],
     [kind |-> "encrypted", accepts |-> {<<"1">>}, first_page_readable |-> TRUE,
      password |-> None, password_file |-> DefaultPasswordFile],
     [kind |-> "plain", accepts |-> {}, first_page_readable |-> FALSE,
      password |-> None, password_file |-> None],
     [kind |-> "unreadable", accepts |-> {}, first_page_readable |-> FALSE,
      password |-> None, password_file |-> None]}

\* process_pdf_statement(pdf_path, password) with the file at pdf_path and
\* the content of DEFAULT_PASSWORD_FILE; the file passes validate_pdf_file.
Requests ==
    {[pdf |-> [kind |-> o.kind, accepts |-> o.accepts,
               first_page_readable |-> o.first_page_readable,
               pages |-> pages, size_mb |-> size_mb],
      password |-> o.password, password_file |-> o.password_file] :
        o \in OpenCases, size_mb \in FileSizesMb,
        pages \in SeqsUpTo(SamplePages, MaxDocPages) \ {<<>>}}

\* celery_app.py:60-80, the task as it is received
Init ==
    /\ job \in {[pc |-> "decrypt", request |-> r, retries |-> 0, reader |-> "none",
                 collected |-> 0, all_transactions |-> <<>>, result |-> None] :
                   r \in Requests}
    /\ chunk_tasks = <<>>
    /\ temp_files = {}
    /\ disk_full = FALSE
    /\ gen = [pc |-> "idle"]
    /\ calc = CalcIdle
    /\ ext = ExtIdle
    /\ dec = DecIdle

\* celery_app.py:194-221: both handlers retry while retries < MAX_RETRIES,
\* which starts the task again, and then return a failure result.
job_failed(j, error) ==
    IF j.retries < MAX_RETRIES
    THEN [j EXCEPT !.pc = "decrypt", !.retries = j.retries + 1, !.reader = "none",
                   !.collected = 0, !.all_transactions = <<>>]
    ELSE [j EXCEPT !.pc = "done",
                   !.result = [success |-> FALSE, error |-> error, retries |-> j.retries]]

\* celery_app.py:97: reader = decryptor.decrypt_pdf(pdf_path, password)
job_decrypt ==
    /\ job.pc = "decrypt"
    /\ job' = IF decrypt_pdf(job.request.pdf, job.request.password,
                             job.request.password_file).k = "Ok"
              THEN [job EXCEPT !.pc = "verify", !.reader = "decrypted"]
              ELSE job_failed(job, "PDFDecryptionError")
    /\ UNCHANGED <<calc, ext, dec, gen, chunk_tasks, temp_files, disk_full>>

\* celery_app.py:99-100
job_verify ==
    /\ job.pc = "verify"
    /\ job' = IF verify_decryption(job.request.pdf)
              THEN [job EXCEPT !.pc = "strategy", !.reader = "verified"]
              ELSE job_failed(job, "PDFDecryptionError")
    /\ UNCHANGED <<calc, ext, dec, gen, chunk_tasks, temp_files, disk_full>>

\* celery_app.py:107-120: the strategy, and on the chunked path one
\* process_pdf_chunk task sent for every range, with the arguments of the
\* job (password_file: the content of DEFAULT_PASSWORD_FILE where it runs).
\* chunk_tasks is the list of this attempt: the tasks of an attempt that a
\* timeout has ended are not followed any further.
job_send_chunks ==
    /\ job.pc = "strategy"
    /\ should_chunk(job.request.pdf)
    /\ LET chunk_ranges == get_chunking_strategy(job.request.pdf).chunk_ranges
       IN chunk_tasks' = [i \in DOMAIN chunk_ranges |->
                            [pc |-> "queued", start_page |-> chunk_ranges[i][1],
                             end_page |-> chunk_ranges[i][2],
                             pdf |-> job.request.pdf, password |-> job.request.password,
                             password_file |-> job.request.password_file,
                             retries |-> 0, reader |-> "none", result |-> None]]
    /\ job' = [job EXCEPT !.pc = "collect", !.collected = 0, !.all_transactions = <<>>]
    /\ UNCHANGED <<calc, ext, dec, gen, temp_files, disk_full>>

\* celery_app.py:137-140: the whole file at once; no password is passed
job_extract ==
    /\ job.pc = "strategy"
    /\ ~should_chunk(job.request.pdf)
    /\ LET extracted == extract_all_transactions(job.request.pdf, None)
       IN job' = IF extracted.k = "Ok"
                 THEN [job EXCEPT !.pc = "check", !.all_transactions = extracted.v]
                 ELSE job_failed(job, "PDFExtractionError")
    /\ UNCHANGED <<calc, ext, dec, gen, chunk_tasks, temp_files, disk_full>>

\* celery_app.py:123-135: the result of the next chunk task, in the order
\* sent; a success extends the list, a failure is logged
job_collect ==
    /\ job.pc = "collect"
    /\ job.collected < Len(chunk_tasks)
    /\ LET chunk_result == chunk_tasks[job.collected + 1].result
       IN /\ chunk_tasks[job.collected + 1].pc = "done"
          /\ job' = [job EXCEPT
                       !.collected = job.collected + 1,
                       !.all_transactions =
                           IF chunk_result.success
                           THEN job.all_transactions \o chunk_result.transactions
                           ELSE job.all_transactions,
                       !.pc = IF job.collected + 1 = Len(chunk_tasks)
                              THEN "check" ELSE "collect"]
    /\ UNCHANGED <<calc, ext, dec, gen, chunk_tasks, temp_files, disk_full>>

\* celery_app.py:125, 133-135: chunk_task.get(timeout=300) raises when the
\* result of the awaited chunk task is not there in time; the error is
\* logged and raised again, which ends the attempt in the handler of
\* celery_app.py:208-221
job_collect_timeout ==
    /\ job.pc = "collect"
    /\ job.collected < Len(chunk_tasks)
    /\ chunk_tasks[job.collected + 1].pc # "done"
    /\ job' = job_failed(job, "TimeoutError")
    /\ UNCHANGED <<calc, ext, dec, gen, chunk_tasks, temp_files, disk_full>>

\* celery_app.py:142-145
job_check ==
    /\ job.pc = "check"
    /\ job' = IF job.all_transactions = <<>>
              THEN job_failed(job, "PDFExtractionError")
              ELSE [job EXCEPT !.pc = "report"]
    /\ UNCHANGED <<calc, ext, dec, gen, chunk_tasks, temp_files, disk_full>>

\* summarizer.py:43 and converter.py:82 read transaction.date and the other
\* attributes of a TransactionData; the dict of to_dict has none of them.
is_transaction_data(t) == "date" \in DOMAIN t

\* celery_app.py:147-192: the summary and the Excel file of the list, and
\* the success result; a record without the attributes ends the attempt in
\* the handler of celery_app.py:208-221
job_report ==
    /\ job.pc = "report"
    /\ job' = IF \A i \in DOMAIN job.all_transactions :
                    is_transaction_data(job.all_transactions[i])
              THEN [job EXCEPT !.pc = "done",
                               !.result = [success |-> TRUE,
                                           transactions |-> job.all_transactions]]
              ELSE job_failed(job, "AttributeError")
    /\ UNCHANGED <<calc, ext, dec, gen, chunk_tasks, temp_files, disk_full>>

\* celery_app.py:285-299
chunk_failed(c, error) ==
    IF c.retries < MAX_RETRIES
    THEN [c EXCEPT !.pc = "queued", !.retries = c.retries + 1, !.reader = "none"]
    ELSE [c EXCEPT !.pc = "done",
                   !.result = [success |-> FALSE, error |-> error, retries |-> c.retries]]

\* celery_app.py:256: reader = decryptor.decrypt_pdf(pdf_path, password)
chunk_decrypt(i) ==
    /\ chunk_tasks[i].pc = "queued"
    /\ chunk_tasks' = [chunk_tasks EXCEPT ![i] =
          IF decrypt_pdf(@.pdf, @.password, @.password_file).k = "Ok"
          THEN [@ EXCEPT !.pc = "decrypted", !.reader = "decrypted"]
          ELSE chunk_failed(@, "PDFDecryptionError")]
    /\ UNCHANGED <<calc, ext, dec, gen, job, temp_files, disk_full>>

\* celery_app.py:259: chunk_path = chunker.create_chunk(reader, start_page,
\* end_page); a PDFChunkingError goes to the handler of line 285
chunk_create(i) ==
    /\ chunk_tasks[i].pc = "decrypted"
    /\ \E file_made \in BOOLEAN :
        LET c == chunk_tasks[i]
            created == create_chunk(c.pdf, c.start_page, c.end_page,
                                    disk_full, file_made)
        IN /\ chunk_tasks' = [chunk_tasks EXCEPT ![i] =
                                IF created.k = "Ok" THEN [c EXCEPT !.pc = "created"]
                                ELSE chunk_failed(c, "PDFChunkingError")]
           /\ temp_files' = files_after(temp_files, chunk_path(c.start_page, c.end_page),
                                        created, i)
    /\ UNCHANGED <<calc, ext, dec, gen, job, disk_full>>

\* celery_app.py:261-283: the extraction from the chunk file, the result
\* with the records as dicts, and in the finally clause os.remove of the
\* file (an OSError of os.remove is passed over)
chunk_extract(i) ==
    /\ chunk_tasks[i].pc = "created"
    /\ LET c == chunk_tasks[i]
           path == chunk_path(c.start_page, c.end_page)
           found == {f \in temp_files : f.path = path}
           extracted == IF found = {} THEN Raise("PDFExtractionError")
                        ELSE extract_all_transactions((CHOOSE f \in found : TRUE).pdf, None)
       IN /\ chunk_tasks' = [chunk_tasks EXCEPT ![i] =
                IF extracted.k = "Ok"
                THEN [c EXCEPT !.pc = "done",
                               !.result = [success |-> TRUE,
                                           transactions |->
                                               [n \in DOMAIN extracted.v |->
                                                   to_dict(extracted.v[n])]]]
                ELSE chunk_failed(c, "PDFExtractionError")]
          /\ temp_files' = temp_files \ found
    /\ UNCHANGED <<calc, ext, dec, gen, job, disk_full>>

\* the temporary directory's disk fills while the job runs
disk_fills ==
    /\ job.pc # "done"
    /\ ~disk_full
    /\ disk_full' = TRUE
    /\ UNCHANGED <<calc, ext, dec, gen, job, chunk_tasks, temp_files>>

Next ==
    \/ job_decrypt
    \/ job_verify
    \/ job_send_chunks
    \/ job_extract
    \/ job_collect
    \/ job_collect_timeout
    \/ job_check
    \/ job_report
    \/ \E i \in DOMAIN chunk_tasks : chunk_decrypt(i)
    \/ \E i \in DOMAIN chunk_tasks : chunk_create(i)
    \/ \E i \in DOMAIN chunk_tasks : chunk_extract(i)
    \/ disk_fills

Spec == Init /\ [][Next]_vars

\* ------------------------------------------------------------ claims C2, C3
\* The chunked path has passed the check of celery_app.py:142-145: the list
\* is the one the job logs as extracted and hands to the summary and the
\* report.
ChunkedListHandedOver ==
    job.pc = "report" /\ should_chunk(job.request.pdf)

\* the records process_pdf_chunk gives for the range of chunk task c when
\* nothing fails
range_records(c) ==
    LET extracted == extract_all_transactions(
                        chunk_pdf(job.request.pdf, c.start_page, c.end_page), None)
    IN IF extracted.k = "Ok" THEN {to_dict(extracted.v[n]) : n \in DOMAIN extracted.v}
       ELSE {}

dict_key(t) == <<t.Date, strip(lower(t.Description)), t.Debit, t.Credit>>
dict_less(a, b) ==
    \/ str_less(a.Date, b.Date)
    \/ a.Date = b.Date /\ str_less(a.Description, b.Description)

\* C3: on the chunked path the merged list handed to summarization and
\* report generation has no two records with the same identity key (date,
\* lowercased trimmed description, debit, credit) and is in ascending
\* (date, description) order.
C3_MergedListCanonical ==
    ChunkedListHandedOver =>
        LET merged == job.all_transactions
        IN /\ \A i, j \in DOMAIN merged :
                 i # j => dict_key(merged[i]) # dict_key(merged[j])
           /\ \A i \in 1..(Len(merged) - 1) : ~dict_less(merged[i + 1], merged[i])

\* ----------------------------------------------------------- claims C9, C10
\* C9: no chunk creation or extraction runs on a reader for which
\* verify_decryption has not returned true: the job is past its check only
\* with a verified reader, and a chunk task has created its chunk only from
\* a verified reader.
C9_VerifiedBeforeUse ==
    /\ job.pc \in {"strategy", "collect", "check", "report"} => job.reader = "verified"
    /\ \A i \in DOMAIN chunk_tasks :
          chunk_tasks[i].pc = "created" => chunk_tasks[i].reader = "verified"

\* C10: after an attempt of process_pdf_chunk has ended (success result,
\* failure result or retry) the chunk file it created no longer exists: a
\* chunk file is there only while the task of its range is between
\* create_chunk and the finally clause.
C10_NoChunkFileAfterAttempt ==
    \A f \in temp_files :
        \E i \in DOMAIN chunk_tasks :
            /\ chunk_tasks[i].pc = "created"
            /\ chunk_path(chunk_tasks[i].start_page, chunk_tasks[i].end_page) = f.path

\* ===================================================================
\* PDFChunker.generate_chunks (chunker.py:136-189)
\* ===================================================================
\* The readers: plain documents of 1..MaxDocPages pages that differ from
\* page to page.
PageCycle == <<TablePage, TextPage, BlankPage>>
GenReaders ==
    {[kind |-> "plain", accepts |-> {}, first_page_readable |-> TRUE,
      pages |-> [n \in 1..len |-> PageCycle[((n - 1) % 3) + 1]], size_mb |-> size_mb] :
        len \in 1..MaxDocPages, size_mb \in FileSizesMb}

\* chunk_ranges: None, or up to two (start_page, end_page) of the caller,
\* in and out of the bounds of the reader
GenRanges == (0..(MaxDocPages + 1)) \X (0..(MaxDocPages + 1))
GenChunkRanges == {None} \cup {Ok(r) : r \in SeqsUpTo(GenRanges, 2)}

\* the generator object of generate_chunks(pdf_path, reader, chunk_ranges,
\* cleanup): no line of it has run.  created is the last call of create_chunk.
InitGenerate ==
    /\ gen \in {[pc |-> "start", reader |-> reader, chunk_ranges |-> chunk_ranges,
                 cleanup |-> cleanup, temp_files |-> <<>>, next |-> 1,
                 created |-> None, outcome |-> None] :
                   reader \in GenReaders, chunk_ranges \in GenChunkRanges,
                   cleanup \in BOOLEAN}
    /\ job = [pc |-> "idle"]
    /\ chunk_tasks = <<>>
    /\ temp_files = {}
    /\ disk_full = FALSE
    /\ calc = CalcIdle
    /\ ext = ExtIdle
    /\ dec = DecIdle

\* chunker.py:160-164: the ranges of the loop
gen_ranges(g) ==
    IF g.chunk_ranges = None
    THEN calculate_optimal_chunks(Len(g.reader.pages), g.reader.size_mb)
    ELSE g.chunk_ranges.v

\* chunker.py:177-189: os.remove of every listed path that exists
cleanup_temp_files_of(files, file_paths) ==
    {f \in files : f.path \notin Range(file_paths)}

\* next(generator).  chunker.py:159-175: the code runs to the next yield:
\* it creates the chunk of the next range and yields its path; after the
\* last range it returns; an error of create_chunk goes to the except
\* clause, which cleans up the listed files when cleanup is set and raises.
gen_next ==
    /\ gen.pc \in {"start", "yielded"}
    /\ \E file_made \in BOOLEAN :
        LET ranges == gen_ranges(gen)
        IN IF gen.next > Len(ranges)
           THEN /\ gen' = [gen EXCEPT !.pc = "finished", !.outcome = Str("StopIteration")]
                /\ UNCHANGED temp_files
           ELSE LET start_page == ranges[gen.next][1]
                    end_page == ranges[gen.next][2]
                    created == create_chunk(gen.reader, start_page, end_page,
                                            disk_full, file_made)
                    call == [start_page |-> start_page, end_page |-> end_page,
                             result |-> created]
                    files == files_after(temp_files, chunk_path(start_page, end_page),
                                         created, 0)
                IN IF created.k = "Ok"
                   THEN /\ gen' = [gen EXCEPT !.pc = "yielded", !.next = gen.next + 1,
                                              !.temp_files = Append(gen.temp_files, created.v),
                                              !.created = call]
                        /\ temp_files' = files
                   ELSE /\ gen' = [gen EXCEPT !.pc = "finished", !.created = call,
                                              !.outcome = Str("PDFChunkingError")]
                        /\ temp_files' = IF gen.cleanup
                                         THEN cleanup_temp_files_of(files, gen.temp_files)
                                         ELSE files
    /\ UNCHANGED <<calc, ext, dec, job, chunk_tasks, disk_full>>

\* The consumer abandons the generator (close(), or the last reference
\* goes): GeneratorExit is raised at the yield, or nothing runs when the
\* generator has not started.  GeneratorExit is not an Exception, so the
\* except clause of chunker.py:171 does not run.
gen_close ==
    /\ gen.pc \in {"start", "yielded"}
    /\ gen' = [gen EXCEPT !.pc = "finished", !.outcome = Str("GeneratorExit")]
    /\ UNCHANGED <<calc, ext, dec, job, chunk_tasks, temp_files, disk_full>>

\* the temporary directory's disk fills while the generator is in use
gen_disk_fills ==
    /\ gen.pc \in {"start", "yielded"}
    /\ ~disk_full
    /\ disk_full' = TRUE
    /\ UNCHANGED <<calc, ext, dec, job, chunk_tasks, temp_files, gen>>

NextGenerate == gen_next \/ gen_close \/ gen_disk_fills

SpecGenerate == InitGenerate /\ [][NextGenerate]_vars

\* C11: with cleanup=True, once the generator is finished (all ranges
\* yielded, an error while creating a chunk, or the consumer abandoning it)
\* every chunk file generate_chunks has created is deleted.
C11_NoChunkFileAfterGenerator ==
    gen.pc = "finished" /\ gen.cleanup => temp_files = {}

\* ===================================================================
\* The workers: process_pdf_chunk tasks and cleanup_temp_files side by side
\* (celery_app.py:224-299, 383-419)
\* ===================================================================
MaxWorkers == 2        \* process_pdf_chunk tasks in the queue

\* Two documents of two pages, and the tasks for their pages
WorkerDocs ==
    {[kind |-> "plain", accepts |-> {}, first_page_readable |-> TRUE,
      pages |-> pages, size_mb |-> 15] :
        pages \in {<<TablePage, TextPage>>, <<TextPage, TablePage>>}}
WorkerTasks ==
    {[pc |-> "queued", start_page |-> n, end_page |-> n, pdf |-> pdf,
      password |-> None, password_file |-> None,
      retries |-> 0, reader |-> "none", result |-> None] :
        n \in 1..2, pdf \in WorkerDocs}

\* the tasks as they wait in the queue of the workers
InitWorkers ==
    /\ chunk_tasks \in [1..MaxWorkers -> WorkerTasks]
    /\ job = [pc |-> "idle"]
    /\ temp_files = {}
    /\ disk_full = FALSE
    /\ gen = [pc |-> "idle"]
    /\ calc = CalcIdle
    /\ ext = ExtIdle
    /\ dec = DecIdle

\* celery_app.py:383-419: os.remove of every pdf_chunk_*.pdf of the
\* temporary directory
cleanup_temp_files ==
    /\ temp_files # {}
    /\ temp_files' = {}
    /\ UNCHANGED <<calc, ext, dec, gen, job, chunk_tasks, disk_full>>

NextWorkers ==
    \/ \E i \in DOMAIN chunk_tasks : chunk_decrypt(i)
    \/ \E i \in DOMAIN chunk_tasks : chunk_create(i)
    \/ \E i \in DOMAIN chunk_tasks : chunk_extract(i)
    \/ cleanup_temp_files

SpecWorkers == InitWorkers /\ [][NextWorkers]_vars

\* C12: chunk tasks and cleanup_temp_files do not interfere: while a task
\* is between creating its chunk file and the end of its extraction, the
\* file at its path is the one that task wrote, neither overwritten nor
\* deleted by another task.
C12_ChunkFileIsOwn ==
    \A i \in DOMAIN chunk_tasks :
        chunk_tasks[i].pc = "created" =>
            \E f \in temp_files :
                /\ f.path = chunk_path(chunk_tasks[i].start_page, chunk_tasks[i].end_page)
                /\ f.by = i
                /\ f.pdf = chunk_pdf(chunk_tasks[i].pdf, chunk_tasks[i].start_page,
                                     chunk_tasks[i].end_page)

\* ---------------------------------------------------------- claims C13, C14
\* C13: a chunk whose result is not obtained within the timeout is the
\* failure of that chunk only: a step of the job taken while it waits for a
\* chunk task that is not done leaves the job in the same attempt, past that
\* chunk and still collecting the others.
C13_TimeoutIsChunkFailureOnly ==
    [][(/\ job.pc = "collect"
        /\ job.collected < Len(chunk_tasks)
        /\ chunk_tasks[job.collected + 1].pc # "done"
        /\ job' # job)
       => (/\ job'.retries = job.retries
           /\ job'.collected = job.collected + 1
           /\ job'.pc = (IF job'.collected = Len(chunk_tasks) THEN "check" ELSE "collect")
           /\ job'.all_transactions = job.all_transactions)]_vars

\* the runs of a task so far: the first one and one for every retry
\* (self.request.retries)
attempts(task) == task.retries + 1

\* C14: a task whose every attempt failed has been attempted exactly
\* MAX_RETRIES times in total when it ends in failure.
C14_AttemptedMaxRetriesTimes ==
    /\ (job.pc = "done" /\ ~job.result.success) => attempts(job) = MAX_RETRIES
    /\ \A i \in DOMAIN chunk_tasks :
          (chunk_tasks[i].pc = "done" /\ ~chunk_tasks[i].result.success)
              => attempts(chunk_tasks[i]) = MAX_RETRIES

\* ===================================================================
\* PDFChunker.get_chunking_strategy on its own (chunker.py:191-234)
\* ===================================================================
MaxStrategySizeMb == 12    \* file sizes 1..MaxStrategySizeMb (MB)

\* a reader of total_pages pages and its file of file_size_mb
InitStrategy ==
    /\ calc \in {[pc |-> "call", op |-> "strategy",
                  pdf |-> [kind |-> "plain", accepts |-> {}, first_page_readable |-> TRUE,
                           pages |-> [n \in 1..total_pages |-> BlankPage],
                           size_mb |-> file_size_mb],
                  strategy |-> None, chunks |-> <<>>] :
                    total_pages \in 0..MaxPages, file_size_mb \in 1..MaxStrategySizeMb}
    /\ ext = ExtIdle
    /\ dec = DecIdle
    /\ TasksIdle

\* get_chunking_strategy(pdf_path, reader), and calculate_optimal_chunks
\* with the default limits for the same file
strategy_call ==
    /\ calc.pc = "call"
    /\ calc' = [calc EXCEPT
                  !.pc = "returned",
                  !.strategy = Ok(get_chunking_strategy(calc.pdf)),
                  !.chunks = calculate_optimal_chunks(Len(calc.pdf.pages), calc.pdf.size_mb)]
    /\ UNCHANGED <<ext, dec, task_vars>>

NextStrategy == strategy_call

SpecStrategy == InitStrategy /\ [][NextStrategy]_vars

\* C15: for a file size up to the size threshold calculate_optimal_chunks
\* returns the one range (1, total_pages) and get_chunking_strategy reports
\* should_chunk = false and one chunk, whatever the page count.
C15_SmallFileOneRange ==
    (calc.pc = "returned" /\ calc.pdf.size_mb <= MAX_CHUNK_SIZE_MB) =>
        /\ calc.chunks = << <<1, Len(calc.pdf.pages)>> >>
        /\ ~calc.strategy.v.should_chunk
        /\ calc.strategy.v.chunk_count = 1
        /\ calc.strategy.v.chunk_ranges = calc.chunks

\* a file of exactly the threshold size, and an empty document, have returned
C15_Witness ==
    /\ calc.pc = "returned"
    /\ calc.pdf.size_mb = MAX_CHUNK_SIZE_MB
    /\ Len(calc.pdf.pages) = 0
    /\ calc.strategy.v.chunk_count = 1

\* ------------------------------------------------------------------ claim C16
\* the last call of create_chunk by the generator, its range and the file
\* at the path of the range
LastCreateInBounds ==
    validate_page_range(gen.created.start_page, gen.created.end_page, Len(gen.reader.pages))
LastCreateFiles ==
    {f \in temp_files : f.path = chunk_path(gen.created.start_page, gen.created.end_page)}
LastCreateWroteRange ==
    /\ gen.created.result.k = "Ok"
    /\ \E f \in LastCreateFiles :
          /\ Len(f.pdf.pages) = gen.created.end_page - gen.created.start_page + 1
          /\ \A n \in 1..Len(f.pdf.pages) :
                f.pdf.pages[n] = gen.reader.pages[gen.created.start_page + n - 1]
LastCreateRaisedNoFile ==
    /\ gen.created.result.k = "Raise"
    /\ gen.created.result.exc = "PDFChunkingError"
    /\ LastCreateFiles = {}

MaxRecords == 3        \* lists of 0..MaxRecords records

\* Records with the same key in another spelling, with another balance or
\* with a reference, and records with another key
SampleRecords ==
    {TransactionData(<<"2", "0", "2", "3", "-", "0", "1", "-", "0", "1">>, <<"A">>, Dec(7, 0), None, None),
     TransactionData(<<"2", "0", "2", "3", "-", "0", "1", "-", "0", "1">>, <<" ", "a">>, Dec(7, 0), None, None),
     TransactionData(<<"2", "0", "2", "3", "-", "0", "1", "-", "0", "1">>, <<"A">>, Dec(7, 0), None, Dec(1, 0)),
     [TransactionData(<<"2", "0", "2", "3", "-", "0", "1", "-", "0", "1">>, <<"A">>, Dec(7, 0), None, None)
         EXCEPT !.reference = Str(<<"R">>)],
     TransactionData(<<"2", "0", "2", "3", "-", "0", "1", "-", "0", "1">>, <<"A">>, None, Dec(7, 0), None),
     TransactionData(<<"2", "0", "2", "3", "-", "0", "1", "-", "0", "2">>, <<"A">>, Dec(7, 0), None, None)}

\* one amount in several spellings (tests/test_utils.py:318-321)
SpellingCells ==
    {<<"1", ",", "2", "3", "4", ".", "5", "6">>,
     <<"1", ".", "2", "3", "4", ",", "5", "6">>,
     <<"1", "2", "3", "4", ".", "5", "6">>,
     <<"1", ",", "2", "3", "4">>}

\* a page whose tables and whose text both give a transaction
MixedPage == [tables |-> TablePage.tables, text |-> TextPage.text]

InitRecords ==
    /\ \/ ext \in {[pc |-> "call", op |-> "dedup", transactions |-> l,
                    unique_transactions |-> <<>>, again |-> <<>>] :
                      l \in SeqsUpTo(SampleRecords, MaxRecords)}
       \/ ext \in {[pc |-> "call", op |-> "all",
                    pdf |-> [kind |-> "plain", accepts |-> {}, first_page_readable |-> TRUE,
                             pages |-> pages],
                    result |-> None] :
                      pages \in SeqsUpTo(SamplePages \cup {MixedPage}, MaxDocPages)}
       \/ ext \in {[pc |-> "call", op |-> "amount", amount_str |-> t, result |-> None] :
                      t \in StringsUpTo(CellAlphabet, MaxCellLen) \cup SampleAmountCells
                              \cup SpellingCells}
    /\ calc = CalcIdle
    /\ dec = DecIdle
    /\ TasksIdle

\* a call of _deduplicate_transactions
dedup_call ==
    /\ ext.pc = "call"
    /\ ext.op = "dedup"
    /\ ext' = [ext EXCEPT !.pc = "returned",
                          !.unique_transactions = deduplicate_transactions(ext.transactions)]
    /\ UNCHANGED <<calc, dec, task_vars>>

\* a call of _deduplicate_transactions with the list the first call returned
dedup_again ==
    /\ ext.pc = "returned"
    /\ ext.op = "dedup"
    /\ ext' = [ext EXCEPT !.pc = "returned twice",
                          !.again = deduplicate_transactions(ext.unique_transactions)]
    /\ UNCHANGED <<calc, dec, task_vars>>

\* a call of extract_all_transactions(pdf_path)
extract_all_call ==
    /\ ext.pc = "call"
    /\ ext.op = "all"
    /\ ext' = [ext EXCEPT !.pc = "returned",
                          !.result = extract_all_transactions(ext.pdf, None)]
    /\ UNCHANGED <<calc, dec, task_vars>>

\* a call of parse_amount(amount_str)
parse_amount_call ==
    /\ ext.pc = "call"
    /\ ext.op = "amount"
    /\ ext' = [ext EXCEPT !.pc = "returned", !.result = parse_amount(ext.amount_str)]
    /\ UNCHANGED <<calc, dec, task_vars>>

NextRecords == dedup_call \/ dedup_again \/ extract_all_call \/ parse_amount_call

SpecRecords == InitRecords /\ [][NextRecords]_vars

\* ---------------------------------------------------------- claims C17, C18
\* C17: _deduplicate_transactions is idempotent: applied to its own output
\* it gives the same records in the same order.
C17_DedupIdempotent ==
    (ext.pc = "returned twice" /\ ext.op = "dedup") => ext.again = ext.unique_transactions

\* a list that lost a duplicate and kept two records has gone through twice
C17_Witness ==
    /\ ext.pc = "returned twice"
    /\ ext.op = "dedup"
    /\ Len(ext.unique_transactions) < Len(ext.transactions)
    /\ Len(ext.unique_transactions) = 2

\* the records the tables, and the text, of the pages of a file give
table_records(pdf) ==
    UNION {Range(pdf.pages[i].tables) : i \in DOMAIN pdf.pages}
text_records(pdf) ==
    UNION {Range(pdf.pages[i].text) : i \in DOMAIN pdf.pages}

\* C18: extract_all_transactions returns text-derived records only if no
\* table of the whole document gave a record, so a returned list holds
\* table records only or text records only; when neither strategy gives a
\* record it raises PDFExtractionError and returns no list.
C18_TextOnlyWithoutTableRecords ==
    (ext.pc = "returned" /\ ext.op = "all") =>
        IF table_records(ext.pdf) # {}
        THEN /\ ext.result.k = "Ok"
             /\ Range(ext.result.v) = table_records(ext.pdf)
             /\ Range(ext.result.v) \cap text_records(ext.pdf) = {}
        ELSE IF text_records(ext.pdf) # {}
        THEN /\ ext.result.k = "Ok"
             /\ Range(ext.result.v) = text_records(ext.pdf)
        ELSE ext.result = Raise("PDFExtractionError")

\* a document with a table record on one page and a text record on
\* another has been extracted
C18_Witness ==
    /\ ext.pc = "returned"
    /\ ext.op = "all"
    /\ Len(ext.pdf.pages) = 2
    /\ ext.pdf.pages[1].tables = <<>> /\ ext.pdf.pages[1].text # <<>>
    /\ ext.pdf.pages[2].tables # <<>>
    /\ ext.result.k = "Ok"

\* ---------------------------------------------------------- claims C19, C20
\* what the lines give when a line whose processing fails gives nothing
lines_records(lines) ==
    concat([i \in DOMAIN lines |->
              With(line_transactions(lines[i]), LAMBDA here :
                  IF here.k = "Ok" THEN here.v ELSE <<>>)])

\* what the rows after the header give, every row on its own
rows_records(table) ==
    With(header_row_idx(table), LAMBDA h :
        IF Len(table) < 2 \/ h = 0 THEN <<>>
        ELSE concat([n \in 1..(Len(table) - h) |->
                With(table[h + n], LAMBDA row :
                    IF Len(row) < Len(table[h]) \/ is_summary_row(row) THEN <<>>
                    ELSE row_transactions(table[h], row))]))

\* C19: a malformed row or line never aborts the extraction: it gives no
\* record, and the records of every other row of the table and of every
\* other line of the text are emitted.
C19_MalformedSkippedOthersEmitted ==
    /\ (ext.pc = "returned" /\ ext.op = "table")
          => ext.transactions = rows_records(ext.table)
    /\ (ext.pc = "returned" /\ ext.op = "text")
          => ext.transactions = lines_records(text_lines(ext.text_content))

\* C20: parse_amount returns a decimal or None for every input string; no
\* exception escapes it.
C20_ParseAmountNeverRaises ==
    (ext.pc = "returned" /\ ext.op = "amount") =>
        (ext.result = None \/ IsDec(ext.result))

\* ---------------------------------------------------------------- claim C21
\* C21: parse_amount gives 1234.56 for "1,234.56" and for "1.234,56" alike;
\* "1234.56" gives 1234.56, "1,234" gives 1234 and "" gives None.
C21_SameValueInBothSpellings ==
    (ext.pc = "returned" /\ ext.op = "amount") =>
        /\ ext.amount_str = <<"1", ",", "2", "3", "4", ".", "5", "6">>
              => ext.result = Dec(123456, 2)
        /\ ext.amount_str = <<"1", ".", "2", "3", "4", ",", "5", "6">>
              => ext.result = Dec(123456, 2)
        /\ ext.amount_str = <<"1", "2", "3", "4", ".", "5", "6">>
              => ext.result = Dec(123456, 2)
        /\ ext.amount_str = <<"1", ",", "2", "3", "4">> => ext.result = Dec(1234, 0)
        /\ ext.amount_str = <<>> => ext.result = None

\* ---------------------------------------------------------------- claim C22
\* the text is YYYY-MM-DD and names a day of the calendar
IsCalendarDateText(s) ==
    /\ Len(s) = 10
    /\ s[5] = "-" /\ s[8] = "-"
    /\ \A i \in {1, 2, 3, 4, 6, 7, 9, 10} : IsDigit(s[i])
    /\ With(digits_value(SubSeq(s, 1, 4)), LAMBDA y :
       With2(digits_value(SubSeq(s, 6, 7)), digits_value(SubSeq(s, 9, 10)), LAMBDA m, d :
            /\ y >= 1
            /\ m \in 1..12
            /\ d >= 1
            /\ d <= (IF m = 2 THEN (IF (y % 4 = 0 /\ y % 100 # 0) \/ y % 400 = 0 THEN 29 ELSE 28)
                     ELSE IF m \in {4, 6, 9, 11} THEN 30 ELSE 31)))

dec_add(a0, b0) ==
    With2(a0, b0, LAMBDA a, b :
        With(Max(a.e, b.e), LAMBDA e :
            Dec(a.m * Pow10(e - a.e) + b.m * Pow10(e - b.e), e)))
dec_sub(a0, b0) ==
    With2(a0, b0, LAMBDA a, b :
        With(Max(a.e, b.e), LAMBDA e :
            Dec(a.m * Pow10(e - a.e) - b.m * Pow10(e - b.e), e)))

\* float(d) for a Decimal: the binary64 number nearest to d.  The decimals
\* here have at most MaxDigits < 15 significant digits, for which two
\* different decimals give two different floats and str() of the float
\* gives the decimal back (sys.float_info.dig = 15), so the float is held
\* as the decimal that str() shows; binary64 below gives its bits.
float(d) == [k |-> "float", m |-> d.m, e |-> d.e]
\* Decimal(str(x)) for a float x
decimal_of_str(x) == Dec(x.m, x.e)

\* datetime.strptime(s, "%Y-%m-%d"): the parts, or the ValueError
strptime(s0) ==
    With(split_on(s0, "-"), LAMBDA parts :
        IF /\ Len(parts) = 3
           /\ \A n \in 1..3 : \A i \in 1..Len(parts[n]) : IsDigit(parts[n][i])
           /\ is_calendar_date(parts[1], parts[2], parts[3])
        THEN Ok([year |-> digits_value(parts[1]), month |-> digits_value(parts[2]),
                 day |-> digits_value(parts[3])])
        ELSE Raise("ValueError"))

\* date_obj.strftime("%Y-%m") for a year of four digits
strftime_month(date) ==
    <<DigitChars[(date.year \div 1000) + 1], DigitChars[((date.year \div 100) % 10) + 1],
      DigitChars[((date.year \div 10) % 10) + 1], DigitChars[(date.year % 10) + 1],
      "-", DigitChars[(date.month \div 10) + 1], DigitChars[(date.month % 10) + 1]>>

\* date.toordinal(): the days from 0001-01-01 on
RECURSIVE days_before_month(_, _)
days_before_month(y, m) ==
    IF m = 1 THEN 0 ELSE days_before_month(y, m - 1) + days_in_month(y, m - 1)
toordinal(date) ==
    With(date.year - 1, LAMBDA y :
        y * 365 + (y \div 4) - (y \div 100) + (y \div 400)
            + days_before_month(date.year, date.month) + date.day)

\* summarizer.py:39-49: the month keys of the records whose date parses
month_key(t) == With(strptime(t.date), LAMBDA date_obj :
                    IF date_obj.k = "Ok" THEN strftime_month(date_obj.v) ELSE <<>>)

\* sorted(keys) for a set of str
RECURSIVE sorted_strs(_)
sorted_strs(S0) ==
    With(S0, LAMBDA S :
        IF S = {} THEN <<>>
        ELSE With(CHOOSE x \in S : \A y \in S : x = y \/ str_less(x, y), LAMBDA first :
                <<first>> \o sorted_strs(S \ {first})))

\* summarizer.py:26-55: the groups in the order of their month keys, every
\* group in the order of the list; a record whose date does not parse is
\* in no group (lines 46-48).
group_transactions_by_month(transactions0) ==
    With(transactions0, LAMBDA transactions :
    With(sorted_strs({month_key(transactions[i]) : i \in DOMAIN transactions} \ {<<>>}),
         LAMBDA keys :
        [n \in DOMAIN keys |->
            [month |-> keys[n],
             transactions |-> SelectSeq(transactions, LAMBDA t : month_key(t) = keys[n])]]))

\* summarizer.py:68-75: the sum of the credits (of the debits) that are set
RECURSIVE total_of(_, _)
total_of(transactions0, field) ==
    With(transactions0, LAMBDA transactions :
        IF transactions = <<>> THEN Dec(0, 0)
        ELSE With(total_of(SubSeq(transactions, 1, Len(transactions) - 1), field), LAMBDA total :
             With(transactions[Len(transactions)][field], LAMBDA amount :
                IF truthy(amount) THEN dec_add(total, amount) ELSE total)))

\* a plausible slip: the net amount as credits + debits
calculate_monthly_totals_added(transactions0) ==
    With(transactions0, LAMBDA transactions :
    With2(total_of(transactions, "credit"), total_of(transactions, "debit"),
          LAMBDA total_credits, total_debits :
        [transaction_count |-> Len(transactions),
         total_credits |-> float(total_credits),
         total_debits |-> float(total_debits),
         net_amount |-> float(dec_add(total_credits, total_debits))]))

\* summarizer.py:57-88 (the two averages are left out)
calculate_monthly_totals(transactions0) ==
    With(transactions0, LAMBDA transactions :
    With2(total_of(transactions, "credit"), total_of(transactions, "debit"),
          LAMBDA total_credits, total_debits :
        [transaction_count |-> Len(transactions),
         total_credits |-> float(total_credits),
         total_debits |-> float(total_debits),
         net_amount |-> float(dec_sub(total_credits, total_debits))]))

\* summarizer.py:228-243: `amount = credit or debit` is None for a record
\* with neither (or with a zero credit and no debit), and total += None
\* raises TypeError
categories_raise(transactions) ==
    \E i \in DOMAIN transactions :
        ~truthy(transactions[i].credit) /\ transactions[i].debit = None

\* summarizer.py:90-136: the month and its totals, or the TypeError of the
\* category analysis (the analyses of the month are left out of the result)
calculate_monthly_summary(month, transactions) ==
    IF transactions = <<>>
    THEN Ok([month |-> month, transaction_count |-> 0, total_credits |-> float(Dec(0, 0)),
             total_debits |-> float(Dec(0, 0)), net_amount |-> float(Dec(0, 0))])
    ELSE IF categories_raise(transactions) THEN Raise("TypeError")
    ELSE With(calculate_monthly_totals(transactions), LAMBDA totals :
            Ok([month |-> month, transaction_count |-> totals.transaction_count,
                total_credits |-> totals.total_credits, total_debits |-> totals.total_debits,
                net_amount |-> totals.net_amount]))

\* summarizer.py:350-358: the sum of Decimal(str(summary[field]))
RECURSIVE overall_of(_, _)
overall_of(summaries0, field) ==
    With(summaries0, LAMBDA summaries :
        IF summaries = <<>> THEN Dec(0, 0)
        ELSE dec_add(overall_of(SubSeq(summaries, 1, Len(summaries) - 1), field),
                     decimal_of_str(summaries[Len(summaries)][field])))

\* min(dates) and max(dates) for a list of str
min_date(transactions) ==
    CHOOSE d \in {transactions[i].date : i \in DOMAIN transactions} :
        \A i \in DOMAIN transactions : ~str_less(transactions[i].date, d)
max_date(transactions) ==
    CHOOSE d \in {transactions[i].date : i \in DOMAIN transactions} :
        \A i \in DOMAIN transactions : ~str_less(d, transactions[i].date)

\* summarizer.py:363-370: the period, or the ValueError of strptime
analysis_period(transactions0) ==
    With(transactions0, LAMBDA transactions :
    With2(strptime(max_date(transactions)), strptime(min_date(transactions)),
          LAMBDA last, first :
        IF last.k = "Raise" \/ first.k = "Raise" THEN Raise("ValueError")
        ELSE Ok([start_date |-> min_date(transactions), end_date |-> max_date(transactions),
                 total_days |-> toordinal(last.v) - toordinal(first.v) + 1])))

\* a plausible slip: the overall totals summed over the whole list
comprehensive_summary_of_list(transactions, monthly_summaries, period) ==
    With2(total_of(transactions, "credit"), total_of(transactions, "debit"),
          LAMBDA overall_credits, overall_debits :
        [total_transactions |-> Len(transactions),
         monthly_summaries |-> monthly_summaries,
         overall_totals |->
            [total_credits |-> float(overall_credits),
             total_debits |-> float(overall_debits),
             net_amount |-> float(dec_sub(overall_credits, overall_debits))],
         analysis_period |-> period])

\* summarizer.py:360-383
comprehensive_summary(transactions, monthly_summaries, period) ==
    With2(overall_of(monthly_summaries, "total_credits"),
          overall_of(monthly_summaries, "total_debits"),
          LAMBDA overall_credits, overall_debits :
        [total_transactions |-> Len(transactions),
         monthly_summaries |-> monthly_summaries,
         overall_totals |->
            [total_credits |-> float(overall_credits),
             total_debits |-> float(overall_debits),
             net_amount |-> float(dec_sub(overall_credits, overall_debits))],
         analysis_period |-> period])

\* summarizer.py:321-385: the summary, or the exception that leaves the
\* function (average_monthly_transactions is left out)
generate_comprehensive_summary(transactions0) ==
    With(transactions0, LAMBDA transactions :
        IF transactions = <<>>
        THEN Ok([total_transactions |-> 0, monthly_summaries |-> <<>>,
                 overall_totals |-> [total_credits |-> float(Dec(0, 0)),
                                     total_debits |-> float(Dec(0, 0)),
                                     net_amount |-> float(Dec(0, 0))],
                 analysis_period |-> None])
        ELSE
    With(group_transactions_by_month(transactions), LAMBDA monthly_groups :
    With([n \in DOMAIN monthly_groups |->
            calculate_monthly_summary(monthly_groups[n].month, monthly_groups[n].transactions)],
         LAMBDA summaries :
        IF \E n \in DOMAIN summaries : summaries[n].k = "Raise" THEN Raise("TypeError")
        ELSE With(analysis_period(transactions), LAMBDA period :
                IF period.k = "Raise" THEN period
                ELSE Ok(comprehensive_summary(transactions,
                            [n \in DOMAIN summaries |-> summaries[n].v], period.v))))))

\* ===================================================================
\* float values of the summaries
\* ===================================================================
\* the binary64 number that float x is (x.e <= 4)
binary64(x) ==
    IF x.m = 0 THEN B64Zero
    ELSE With(bn_divmod(bn_shl(bn_of(IF x.m < 0 THEN 0 - x.m ELSE x.m), 64), Pow10(x.e)),
              LAMBDA d : b64_round(x.m < 0, bn_strip(d.q), d.r # 0, 0 - 64))

\* sum(xs) for a list of floats
RECURSIVE b64_sum(_)
b64_sum(xs0) ==
    With(xs0, LAMBDA xs :
        IF xs = <<>> THEN B64Zero
        ELSE b64_add(b64_sum(SubSeq(xs, 1, Len(xs) - 1)), binary64(xs[Len(xs)])))

\* ===================================================================
\* The summarizer on its own
\* ===================================================================
MaxSummaryRecords == 3     \* lists of 0..MaxSummaryRecords records

\* Records of three months with amounts of whole units and of tenths, a
\* record with a date that is no day of the calendar between the others,
\* one with a date that is no date, and one without an amount.
SummaryRecords ==
    {TransactionData(<<"2","0","2","3","-","0","1","-","1","5">>, <<"a">>, None, Dec(1, 1), None),
     TransactionData(<<"2","0","2","3","-","0","1","-","1","5">>, <<"a">>, None, Dec(200, 0), None),
     TransactionData(<<"2","0","2","3","-","0","1","-","3","1">>, <<"a">>, None, Dec(100, 0), None),
     TransactionData(<<"2","0","2","3","-","0","2","-","3","0">>, <<"a">>, Dec(50, 0), None, None),
     TransactionData(<<"2","0","2","3","-","0","3","-","0","1">>, <<"a">>, None, Dec(2, 1), None),
     TransactionData(<<"2","0","2","3","-","0","3","-","0","1">>, <<"a">>, Dec(50, 0), None, Dec(5, 0)),
     TransactionData(<<"P","e","n","d","i","n","g">>, <<"a">>, None, Dec(5, 0), None),
     TransactionData(<<"2","0","2","3","-","0","3","-","0","1">>, <<"a">>, None, None, Dec(5, 0))}

InitSummary ==
    /\ calc \in {[pc |-> "call", op |-> op, transactions |-> l, result |-> None] :
                    op \in {"comprehensive", "totals"},
                    l \in SeqsUpTo(SummaryRecords, MaxSummaryRecords)}
    /\ ext = ExtIdle
    /\ dec = DecIdle
    /\ TasksIdle

\* a call of generate_comprehensive_summary(transactions)
summary_call ==
    /\ calc.pc = "call"
    /\ calc.op = "comprehensive"
    /\ calc' = [calc EXCEPT !.pc = "returned",
                            !.result = generate_comprehensive_summary(calc.transactions)]
    /\ UNCHANGED <<ext, dec, task_vars>>

\* a call of calculate_monthly_totals(transactions)
totals_call ==
    /\ calc.pc = "call"
    /\ calc.op = "totals"
    /\ calc' = [calc EXCEPT !.pc = "returned",
                            !.result = calculate_monthly_totals(calc.transactions)]
    /\ UNCHANGED <<ext, dec, task_vars>>

NextSummary == summary_call \/ totals_call

SpecSummary == InitSummary /\ [][NextSummary]_vars

\* ------------------------------------------------------ claims C23, C24, C28
\* generate_comprehensive_summary has returned a summary of a list that is
\* not empty
SummaryReturned ==
    /\ calc.pc = "returned"
    /\ calc.op = "comprehensive"
    /\ calc.transactions # <<>>
    /\ calc.result.k = "Ok"

\* the values of one field of the monthly summaries
monthly_values(field) ==
    [n \in DOMAIN calc.result.v.monthly_summaries |-> calc.result.v.monthly_summaries[n][field]]

\* the sum of floats taken as the decimal numbers that they show
RECURSIVE shown_sum(_)
shown_sum(xs0) ==
    With(xs0, LAMBDA xs :
        IF xs = <<>> THEN Dec(0, 0)
        ELSE dec_add(shown_sum(Tail(xs)), Dec(Head(xs).m, Head(xs).e)))

RECURSIVE sum_non_null(_, _)
sum_non_null(transactions0, field) ==
    With(transactions0, LAMBDA transactions :
        IF transactions = <<>> THEN Dec(0, 0)
        ELSE With(sum_non_null(Tail(transactions), field), LAMBDA rest :
                IF Head(transactions)[field] = None THEN rest
                ELSE dec_add(Head(transactions)[field], rest)))

\* C24: calculate_monthly_totals returns total_credits = the sum of the
\* credits that are not None, total_debits = the sum of the debits that are
\* not None, net_amount = total_credits - total_debits and
\* transaction_count = the number of records; credits of 100 and 200 and a
\* debit of 50 give 300, 50, 250 and 3.
C24_MonthlyTotals ==
    (calc.pc = "returned" /\ calc.op = "totals") =>
        With2(sum_non_null(calc.transactions, "credit"), sum_non_null(calc.transactions, "debit"),
              LAMBDA credits, debits :
            /\ calc.result.total_credits = float(credits)
            /\ calc.result.total_debits = float(debits)
            /\ calc.result.net_amount = float(dec_sub(credits, debits))
            /\ calc.result.transaction_count = Len(calc.transactions))

\* the totals of credits of 100 and 200 and a debit of 50
C24_Witness ==
    /\ calc.pc = "returned"
    /\ calc.op = "totals"
    /\ Len(calc.transactions) = 3
    /\ {calc.transactions[i].credit : i \in 1..3} = {Dec(100, 0), Dec(200, 0), None}
    /\ {calc.transactions[i].debit : i \in 1..3} = {Dec(50, 0), None}
    /\ calc.result = [transaction_count |-> 3, total_credits |-> float(Dec(300, 0)),
                      total_debits |-> float(Dec(50, 0)), net_amount |-> float(Dec(250, 0))]

RECURSIVE count_sum(_)
count_sum(summaries0) ==
    With(summaries0, LAMBDA summaries :
        IF summaries = <<>> THEN 0
        ELSE Head(summaries).transaction_count + count_sum(Tail(summaries)))

\* C28: in every result of generate_comprehensive_summary,
\* total_transactions is the sum of transaction_count over the monthly
\* summaries, also for a list with a record whose date does not parse.
C28_TotalIsSumOfMonthCounts ==
    (calc.pc = "returned" /\ calc.op = "comprehensive" /\ calc.result.k = "Ok") =>
        calc.result.v.total_transactions = count_sum(calc.result.v.monthly_summaries)

\* ---------------------------------------------------------------- claim C25
\* C25: for a file above the size threshold the ranges are made with
\* pages_per_chunk = max(1, floor(min(total_pages * threshold / file size,
\* max_pages_per_chunk))): every range but the last has that many pages and
\* the last has between 1 and that many.
C25_RangesOfPagesPerChunk ==
    (calc.pc = "returned" /\ calc.args.file_size_mb > calc.args.max_chunk_size_mb) =>
        With(Max(1, Min((calc.args.total_pages * calc.args.max_chunk_size_mb)
                            \div calc.args.file_size_mb,
                        calc.args.max_pages_per_chunk)), LAMBDA n :
            /\ \A i \in 1..(Len(calc.chunks) - 1) :
                  calc.chunks[i][2] - calc.chunks[i][1] + 1 = n
            /\ calc.chunks # <<>> =>
                  With(calc.chunks[Len(calc.chunks)], LAMBDA last :
                      last[2] - last[1] + 1 \in 1..n))


\* ------------------------------------------------------------------ claim C26
\* the place in the list of the first record that has the key of t
first_with_key(transactions, t) ==
    CHOOSE i \in DOMAIN transactions :
        /\ transaction_key(transactions[i]) = transaction_key(t)
        /\ \A j \in 1..(i - 1) : transaction_key(transactions[j]) # transaction_key(t)

\* C26: _deduplicate_transactions(L) is the subsequence of L that keeps for
\* every identity key exactly the first record of L with that key, in the
\* order of L: every record of the result is the first record of L with its
\* key (a later one is dropped also when its balance differs), these places
\* in L increase along the result, and every key of L is kept.
C26_FirstRecordOfEveryKey ==
    (ext.pc = "returned" /\ ext.op = "dedup") =>
        With2(ext.transactions, ext.unique_transactions, LAMBDA L, U :
            /\ \A n \in DOMAIN U :
                  /\ \E i \in DOMAIN L : transaction_key(L[i]) = transaction_key(U[n])
                  /\ U[n] = L[first_with_key(L, U[n])]
            /\ \A n \in 1..(Len(U) - 1) :
                  first_with_key(L, U[n]) < first_with_key(L, U[n + 1])
            /\ \A i \in DOMAIN L :
                  \E n \in DOMAIN U : transaction_key(U[n]) = transaction_key(L[i]))

\* a list of three records: the second has the key of the first and another
\* reference and is dropped, the third has a new key and is kept
C26_Witness ==
    /\ ext.pc = "returned"
    /\ ext.op = "dedup"
    /\ Len(ext.transactions) = 3
    /\ transaction_key(ext.transactions[2]) = transaction_key(ext.transactions[1])
    /\ ext.transactions[2].reference # ext.transactions[1].reference
    /\ transaction_key(ext.transactions[3]) # transaction_key(ext.transactions[1])
    /\ ext.unique_transactions = <<ext.transactions[1], ext.transactions[3]>>


\* ------------------------------------------------------------------ claim C29
\* C29: calculate_optimal_chunks terminates for every input, also for
\* max_pages_per_chunk <= 0: every iteration of the loop that builds the
\* ranges has increased start_page (the next start is past the start of the
\* range just added), so the loop has made at most total_pages iterations.
C29_LoopEndsWithinTotalPages ==
    calc.pc \in {"loop", "returned"} /\ calc.args.file_size_mb > calc.args.max_chunk_size_mb =>
        /\ \A i \in DOMAIN calc.chunks : calc.chunks[i][2] + 1 > calc.chunks[i][1]
        /\ Len(calc.chunks) <= calc.args.total_pages


\* ------------------------------------------------------------------ claim C27
\* extractor.py:424-429: the amounts the loop over the parts of a line
\* collects
line_amounts(line) == SelectSeq(parsed_parts(split(strip(line))), truthy)

\* C27: in the text fallback a line with exactly two amounts a (the first)
\* and b (the second) gives a record whose balance is the larger of a and
\* b, and the smaller of the two is the credit when it is the first amount
\* and the debit when it is the second.
C27_LargerIsBalance ==
    (/\ ext.pc = "returned"
     /\ ext.op = "text"
     /\ Len(text_lines(ext.text_content)) = 1
     /\ Len(ext.transactions) = 1
     /\ Len(line_amounts(text_lines(ext.text_content)[1])) = 2) =>
        With2(line_amounts(text_lines(ext.text_content)[1]), ext.transactions[1],
              LAMBDA amounts, t :
            /\ t.balance = (IF dec_less(amounts[1], amounts[2]) THEN amounts[2] ELSE amounts[1])
            /\ dec_less(amounts[1], amounts[2]) => (t.credit = amounts[1] /\ t.debit = None)
            /\ dec_less(amounts[2], amounts[1]) => (t.debit = amounts[2] /\ t.credit = None))


\* ------------------------------------------------------------------ claim C30
\* C30: a password given to process_pdf_statement reaches the extraction
\* of the original file: on the path without chunks the step of the task
\* that extracts is the call of extract_all_transactions with the document and the
\* password that was passed to decrypt_pdf, so a file that was decrypted
\* with a password is not opened for extraction without it.
C30_PasswordReachesExtraction ==
    [][(job.pc = "strategy" /\ ~should_chunk(job.request.pdf) /\ job' # job) =>
          With(extract_all_transactions(job.request.pdf, job.request.password),
               LAMBDA extracted :
                  job' = IF extracted.k = "Ok"
                         THEN [job EXCEPT !.pc = "check", !.all_transactions = extracted.v]
                         ELSE job_failed(job, "PDFExtractionError"))]_vars

=============================================================================
